---- MODULE Spec2Model ----
(***************************************************************************)
(* A model of midimap: the MIDI-to-keyboard mapping engine                 *)
(* (src/src/mapper.py), the keyboard backend (src/src/keyboard.py), the    *)
(* profile store of the graphical shell, the key-combination validator     *)
(* and the MIDI file player (src/src/gui.py), the audio and YouTube        *)
(* converters (src/src/converters) and the MIDI writer and the note        *)
(* binarization (src/utils/audio.py).                                      *)
(*                                                                         *)
(* The specifications share the module's variables:                        *)
(*   SpecMapper    the mapping engine under note-on / note-off calls       *)
(*   SpecStore     the profile store under the profile-panel operations    *)
(*   SpecValidate  validate_key_combination on candidate key strings       *)
(*   SpecCombo     press_key then release_key of a key string              *)
(*   SpecAdjust    the note-range adjustment of a loaded file              *)
(*   SpecMisclick  the misclick step of one note-on                        *)
(*   SpecPlayer    play, pause, stop, seek_to and the playback threads     *)
(*   SpecPass      one playback pass, with humanize on or off              *)
(*   SpecReplay    the same file played again after a pass has ended       *)
(*   SpecBatch     convert_batch_parallel and its worker pool              *)
(*   SpecYouTube   YouTubeConverter.convert and cancel                     *)
(*   SpecLive      live mapping in the graphical shell and its toggle      *)
(*   SpecBinarize  the onset and offset flags of a regression curve        *)
(*   SpecWrite     write_events_to_midi on note and pedal events           *)
(*   SpecSeek      play, pause and seek_to without stop                    *)
(*   SpecStop      one playback up to stop; SpecStopFair schedules the     *)
(*                 playback thread and the caller                          *)
(*   SpecBackend   press_combination on every backend strategy             *)
(*   SpecLoad      the mapper's load_config beside the shell's start       *)
(*   SpecConvert   AudioToMIDIConverter.convert_audio_to_midi              *)
(*   SpecLoading   the model loading of convert_async and the batch        *)
(*   SpecWidgets   key capture and the worker threads' widget updates      *)
(*   SpecConnect   connect_midi, disconnect_midi and the listener thread   *)
(*   SpecLoadFile  MIDIFilePlayer.load_file on a list of messages          *)
(*   SpecEdit      live mapping while the mapping is edited                *)
(*   SpecRun       the command-line mapper's run loop and its port         *)
(***************************************************************************)
EXTENDS Integers, Sequences, FiniteSets, TLC

VARIABLES
    mapper,     \* MIDIToKeyboardMapper: midi_map, active_notes, velocity_threshold
    keyboard,   \* the key presses and releases issued so far, in order
    call,       \* the handler call that produced the current mapper state
    gui,        \* MIDIMapperGUI: profiles, current_profile, midi_map, ..., and the file
    op,         \* the GUI operation that produced the current store state
    entry,      \* the pieces typed or captured into the key entry field, in order
    valid,      \* the verdict of validate_key_combination on the entry's string
    player,     \* MIDIFilePlayer: its fields, its playback threads, its dispatches
    converter   \* the audio and YouTube converters: a batch, a download, a post-processing run

vars == <<mapper, keyboard, call, gui, op, entry, valid, player, converter>>

(***************************************************************************)
(* Python dictionaries are functions with a finite domain.                 *)
(***************************************************************************)
EmptyDict == <<>>

DictSet(d, k, v) == [x \in DOMAIN d \cup {k} |-> IF x = k THEN v ELSE d[x]]

DictDel(d, k) == [x \in DOMAIN d \ {k} |-> d[x]]

PartialMaps(K, V) == UNION {[D -> V] : D \in SUBSET K}

(***************************************************************************)
(* The mapping engine, src/src/mapper.py                                   *)
(***************************************************************************)
MaxLog == 4

Notes == {60, 62}

MapperKeys == {"a", "ctrl+c"}

Velocities == {0, 40, 60, 100}

Thresholds == {0, 50}

\* self.active_notes.get(note, False)
IsActive(m, note) ==
    note \in DOMAIN m.active_notes /\ m.active_notes[note]

\* MIDIToKeyboardMapper.press_key, seen as one issued key press
press_key(kb, key, note) ==
    Append(kb, [act |-> "press", key |-> key, note |-> note])

\* MIDIToKeyboardMapper.release_key, seen as one issued key release
release_key(kb, key, note) ==
    Append(kb, [act |-> "release", key |-> key, note |-> note])

\* a gate that also drops a velocity equal to the threshold
BelowOrAtThreshold(velocity, threshold) == velocity <= threshold

\* a handler without the duplicate-press guard
MayPressAlways(m, note) == TRUE

\* a handler that releases whether or not the note is down
MayReleaseAlways(m, note) == TRUE

\* the velocity gate of handle_note_on
BelowThreshold(velocity, threshold) == velocity < threshold

\* the duplicate-press guard of handle_note_on
MayPress(m, note) == ~IsActive(m, note)

\* the guard of handle_note_off
MayRelease(m, note) == IsActive(m, note)

handle_note_on(note, velocity) ==
    /\ Len(keyboard) < MaxLog
    /\ call' = [fn |-> "handle_note_on", note |-> note, velocity |-> velocity]
    /\ IF BelowThreshold(velocity, mapper.velocity_threshold)
       THEN UNCHANGED <<mapper, keyboard>>
       ELSE IF note \in DOMAIN mapper.midi_map /\ MayPress(mapper, note)
            THEN /\ keyboard' = press_key(keyboard, mapper.midi_map[note], note)
                 /\ mapper' = [mapper EXCEPT
                        !.active_notes = DictSet(mapper.active_notes, note, TRUE)]
            ELSE UNCHANGED <<mapper, keyboard>>
    /\ UNCHANGED <<gui, op, entry, valid, player, converter>>

handle_note_off(note) ==
    /\ Len(keyboard) < MaxLog
    /\ call' = [fn |-> "handle_note_off", note |-> note, velocity |-> 0]
    /\ IF note \in DOMAIN mapper.midi_map /\ MayRelease(mapper, note)
       THEN /\ keyboard' = release_key(keyboard, mapper.midi_map[note], note)
            /\ mapper' = [mapper EXCEPT
                   !.active_notes = DictSet(mapper.active_notes, note, FALSE)]
       ELSE UNCHANGED <<mapper, keyboard>>
    /\ UNCHANGED <<gui, op, entry, valid, player, converter>>

(***************************************************************************)
(* Key strings are sequences of characters.                                *)
(* validate_key_combination, src/src/gui.py                                *)
(***************************************************************************)
Letters ==
    {"a", "b", "c", "d", "e", "f", "g", "h", "i", "j", "k", "l", "m",
     "n", "o", "p", "q", "r", "s", "t", "u", "v", "w", "x", "y", "z"}

Digits == {"0", "1", "2", "3", "4", "5", "6", "7", "8", "9"}

\* str.isalnum on a one-character string
isalnum(c) == c \in Letters \cup Digits \cup {"A"}

valid_modifiers ==
    {<<"c", "t", "r", "l">>,
     <<"s", "h", "i", "f", "t">>,
     <<"a", "l", "t">>}

valid_special ==
    {<<"s", "p", "a", "c", "e">>,
     <<"e", "n", "t", "e", "r">>,
     <<"t", "a", "b">>,
     <<"e", "s", "c">>,
     <<"b", "a", "c", "k", "s", "p", "a", "c", "e">>,
     <<"d", "e", "l", "e", "t", "e">>,
     <<"i", "n", "s", "e", "r", "t">>,
     <<"u", "p">>,
     <<"d", "o", "w", "n">>,
     <<"l", "e", "f", "t">>,
     <<"r", "i", "g", "h", "t">>,
     <<"h", "o", "m", "e">>,
     <<"e", "n", "d">>,
     <<"p", "a", "g", "e", "_", "u", "p">>,
     <<"p", "a", "g", "e", "_", "d", "o", "w", "n">>,
     <<"f", "1">>,
     <<"f", "2">>,
     <<"f", "3">>,
     <<"f", "4">>,
     <<"f", "5">>,
     <<"f", "6">>,
     <<"f", "7">>,
     <<"f", "8">>,
     <<"f", "9">>,
     <<"f", "1", "0">>,
     <<"f", "1", "1">>,
     <<"f", "1", "2">>}

\* key_str.split('+')
RECURSIVE split(_)
split(s) ==
    IF \A i \in 1..Len(s) : s[i] # "+" THEN <<s>>
    ELSE LET i == CHOOSE j \in 1..Len(s) :
                      s[j] = "+" /\ \A k \in 1..(j - 1) : s[k] # "+"
         IN  <<SubSeq(s, 1, i - 1)>> \o split(SubSeq(s, i + 1, Len(s)))

\* a validator that does not look at the first part of the string
ModifierPartsSkipFirst(parts) == SubSeq(parts, 2, Len(parts) - 1)

\* parts[:-1], the parts that must be modifiers
ModifierParts(parts) == SubSeq(parts, 1, Len(parts) - 1)

validate_key_combination(s) ==
    IF s = <<>> THEN FALSE
    ELSE LET parts == split(s)
             modifiers == ModifierParts(parts)
             last_part == parts[Len(parts)]
         IN  IF \E i \in 1..Len(modifiers) : modifiers[i] \notin valid_modifiers
             THEN FALSE
             ELSE IF Len(last_part) = 1 /\ isalnum(last_part[1]) THEN TRUE
             ELSE last_part \in valid_special

(***************************************************************************)
(* The configuration file and the profile store, src/src/gui.py            *)
(***************************************************************************)
Names == {"default", "A", "B"}

StoreNotes == {7, 60}

\* a str() that keeps only the last digit
StrLastDigit(n) == <<n % 10>>

\* str(k) of a note number: its decimal digits
RECURSIVE str(_)
str(n) == IF n < 10 THEN <<n>> ELSE str(n \div 10) \o <<n % 10>>

\* int(k) of a decimal digit string
RECURSIVE int(_)
int(s) ==
    IF Len(s) = 1 THEN s[1] ELSE 10 * int(SubSeq(s, 1, Len(s) - 1)) + s[Len(s)]

\* {str(k): v for k, v in midi_map.items()}
StrKeys(m) ==
    [s \in {str(k) : k \in DOMAIN m} |-> m[CHOOSE k \in DOMAIN m : str(k) = s]]

\* {int(k): v for k, v in midi_map.items()}
IntKeys(d) ==
    [n \in {int(s) : s \in DOMAIN d} |-> d[CHOOSE s \in DOMAIN d : int(s) = n]]

AbsentFile == [schema |-> "absent"]

CorruptFile == [schema |-> "corrupt"]

LegacyFile(m, t) ==
    [schema |-> "legacy", midi_map |-> m, velocity_threshold |-> t]

NewFile(p, c) == [schema |-> "new", profiles |-> p, current_profile |-> c]

NotSaved == [by |-> "none"]

\* MIDIMapperGUI.__init__ up to the call of load_all_profiles; the file and
\* the record of what was last saved into it outlive the process
GuiInit(file, saved) ==
    [running |-> FALSE,
     profiles |-> EmptyDict,
     current_profile |-> "default",
     midi_map |-> EmptyDict,
     mapper_map |-> EmptyDict,
     mapper_threshold |-> 0,
     player_map |-> EmptyDict,
     combo |-> {},
     file |-> file,
     saved |-> saved,
     log |-> <<>>]

\* the start of a handler: nothing done yet
Begin(g) == [g EXCEPT !.log = <<>>]

\* a store that never takes the mapping it is handed
SetProfileDropped(g, name, mapping) == g

\* self.profiles[name] = mapping
SetProfile(g, name, mapping) ==
    [g EXCEPT !.profiles = DictSet(g.profiles, name, mapping),
              !.log = Append(g.log, [e |-> "store", name |-> name])]

\* a shell that does not hand the mapping on to the file player
SetLiveWithoutPlayer(g, mapping) ==
    [g EXCEPT !.midi_map = mapping,
              !.mapper_map = mapping,
              !.log = Append(g.log, [e |-> "live", name |-> g.current_profile])]

\* self.midi_map = mapping; self.mapper.midi_map = copy; player.update_midi_map
SetLive(g, mapping) ==
    [g EXCEPT !.midi_map = mapping,
              !.mapper_map = mapping,
              !.player_map = mapping,
              !.log = Append(g.log, [e |-> "live", name |-> g.current_profile])]

\* the velocity_threshold save_all_profiles writes for every profile
SavedThreshold(g) == g.mapper_threshold

save_all_profiles(g) ==
    LET profiles_data ==
            [name \in DOMAIN g.profiles |->
                [midi_map |-> StrKeys(g.profiles[name]),
                 velocity_threshold |-> SavedThreshold(g)]]
        config == NewFile(profiles_data, g.current_profile)
    IN  [g EXCEPT !.file = config,
                  !.saved = [by |-> "save_all_profiles",
                             profiles |-> g.profiles,
                             current_profile |-> g.current_profile],
                  !.log = Append(g.log, [e |-> "write", file |-> config])]

\* the "Ensure default profile exists" step of load_all_profiles
EnsureDefault(profiles) ==
    IF "default" \in DOMAIN profiles THEN profiles
    ELSE DictSet(profiles, "default", EmptyDict)

\* the tail of load_all_profiles: default profile, combo, current profile
LoadTail(g) ==
    LET profiles == EnsureDefault(g.profiles)
    IN  [g EXCEPT !.profiles = profiles,
                  !.combo = DOMAIN profiles,
                  !.current_profile =
                      IF g.current_profile \in DOMAIN profiles
                      THEN g.current_profile ELSE "default"]

load_all_profiles(g) ==
    IF g.file.schema = "absent"
    THEN save_all_profiles([g EXCEPT !.profiles = DictSet(EmptyDict, "default", EmptyDict)])
    ELSE IF g.file.schema = "corrupt"
    THEN [g EXCEPT !.profiles = DictSet(EmptyDict, "default", EmptyDict),
                   !.current_profile = "default",
                   !.combo = {"default"}]
    ELSE IF g.file.schema = "new"
    THEN LoadTail([g EXCEPT
             !.profiles = [name \in DOMAIN g.file.profiles |->
                              IntKeys(g.file.profiles[name].midi_map)],
             !.current_profile = g.file.current_profile])
    ELSE LoadTail(save_all_profiles([g EXCEPT
             !.profiles = DictSet(EmptyDict, "default", IntKeys(g.file.midi_map)),
             !.current_profile = "default"]))

load_profile_without_save(g, profile_name) ==
    LET name == IF profile_name \in DOMAIN g.profiles THEN profile_name
                ELSE IF "default" \in DOMAIN g.profiles THEN "default"
                ELSE IF g.profiles # EmptyDict
                     THEN CHOOSE n \in DOMAIN g.profiles : TRUE
                     ELSE "default"
        g1 == IF name \in DOMAIN g.profiles THEN g
              ELSE [g EXCEPT !.profiles = DictSet(g.profiles, name, EmptyDict)]
        g2 == [g1 EXCEPT !.current_profile = name]
    IN  [g2 EXCEPT !.midi_map = g2.profiles[name],
                   !.mapper_map = g2.profiles[name],
                   !.player_map = g2.profiles[name]]

\* the len(self.profiles) == 1 guard of rename_profile and delete_profile
NoProfileGuard(g) == FALSE

OnlyOneProfile(g) == Cardinality(DOMAIN g.profiles) = 1

switch_profile(g, profile_name) ==
    IF profile_name \notin DOMAIN g.profiles THEN g
    ELSE LET g1 == SetProfile(g, g.current_profile, g.midi_map)
             g2 == [g1 EXCEPT !.current_profile = profile_name]
             g3 == SetLive(g2, g2.profiles[profile_name])
         IN  save_all_profiles(g3)

\* on_profile_changed: the combo box selected new_profile
on_profile_changed(g, new_profile) ==
    IF new_profile # g.current_profile THEN switch_profile(g, new_profile) ELSE g

\* the create() callback of create_new_profile
create_new_profile(g, name) ==
    IF name = "" \/ name \in DOMAIN g.profiles THEN g
    ELSE LET g1 == SetProfile(g, g.current_profile, g.midi_map)
             g2 == SetProfile(g1, name, EmptyDict)
             g3 == [g2 EXCEPT !.combo = DOMAIN g2.profiles]
         IN  switch_profile(save_all_profiles(g3), name)

\* rename_profile with the rename() callback of its dialog
rename_profile(g, new_name) ==
    IF OnlyOneProfile(g) THEN g
    ELSE IF new_name = "" \/ new_name = g.current_profile
            \/ new_name \in DOMAIN g.profiles THEN g
    ELSE LET mappings == g.midi_map
             g1 == [g EXCEPT !.profiles = DictDel(g.profiles, g.current_profile)]
             g2 == SetProfile(g1, new_name, mappings)
             g3 == [g2 EXCEPT !.combo = DOMAIN g2.profiles,
                              !.current_profile = new_name]
         IN  save_all_profiles(g3)

\* delete_profile; first_key is list(self.profiles.keys())[0] after the deletion
delete_profile(g, confirm, first_key) ==
    IF OnlyOneProfile(g) \/ ~confirm THEN g
    ELSE LET g1 == SetProfile(g, g.current_profile, g.midi_map)
             g2 == [g1 EXCEPT !.profiles = DictDel(g1.profiles, g1.current_profile)]
             new_profile == IF "default" \in DOMAIN g2.profiles THEN "default"
                            ELSE first_key
             g3 == [g2 EXCEPT !.combo = DOMAIN g2.profiles]
         IN  switch_profile(save_all_profiles(g3), new_profile)

\* str.lower on one character
Lower(c) == IF c = "A" THEN "a" ELSE c

\* key_str.strip().lower().replace(" ", "")
Normalize(s) ==
    LET kept == SelectSeq(s, LAMBDA c : c # " ")
    IN  [i \in 1..Len(kept) |-> Lower(kept[i])]

assign_key(g, midi_note, key_var) ==
    IF midi_note < 0 \/ midi_note > 127 THEN g
    ELSE LET normalized == Normalize(key_var)
         IN  IF normalized = <<>> \/ ~validate_key_combination(normalized) THEN g
             ELSE LET g1 == SetLive(g, DictSet(g.midi_map, midi_note, normalized))
                  IN  SetProfile(g1, g1.current_profile, g1.midi_map)

remove_mapping(g, midi_note) ==
    IF midi_note \in DOMAIN g.midi_map
    THEN LET g1 == SetLive(g, DictDel(g.midi_map, midi_note))
         IN  SetProfile(g1, g1.current_profile, g1.midi_map)
    ELSE g

clear_all_mappings(g, confirm) ==
    IF confirm
    THEN LET g1 == SetLive(g, EmptyDict)
         IN  SetProfile(g1, g1.current_profile, EmptyDict)
    ELSE g

save_config(g) ==
    save_all_profiles(SetProfile(g, g.current_profile, g.midi_map))

on_closing(g) ==
    save_all_profiles(SetProfile(g, g.current_profile, g.midi_map))

(***************************************************************************)
(* Initial states and actions                                              *)
(***************************************************************************)
NoCall == [fn |-> "none", note |-> 0, velocity |-> 0]

IdleMapper ==
    [midi_map |-> EmptyDict, active_notes |-> EmptyDict, velocity_threshold |-> 0]

IdleGui == GuiInit(AbsentFile, NotSaved)

\* no MIDI file player is in use
IdlePlayer == [mode |-> "none"]

\* no converter is in use
IdleConverter == [mode |-> "none"]

NoOp ==
    [name |-> "none", arg |-> "", ok |-> FALSE, from |-> "", edited |-> EmptyDict,
     unsaved |-> FALSE, file_before |-> AbsentFile]

InitMapper ==
    /\ mapper \in [midi_map : PartialMaps(Notes, MapperKeys),
                   active_notes : {EmptyDict},
                   velocity_threshold : Thresholds]
    /\ keyboard = <<>>
    /\ call = NoCall
    /\ gui = IdleGui
    /\ op = NoOp
    /\ entry = <<>>
    /\ valid = FALSE
    /\ player = IdlePlayer
    /\ converter = IdleConverter

NoteOn == \E note \in Notes, velocity \in Velocities : handle_note_on(note, velocity)

NoteOff == \E note \in Notes : handle_note_off(note)

NextMapper == NoteOn \/ NoteOff

SpecMapper == InitMapper /\ [][NextMapper]_vars

\* the configuration files the application may find when it starts
FileMaps == {StrKeys(EmptyDict), StrKeys(60 :> <<"a">>)}

FileThresholds == {0, 5}

FileProfiles ==
    UNION {[P -> [midi_map : FileMaps, velocity_threshold : FileThresholds]] :
               P \in SUBSET Names}

InitialFiles ==
    {AbsentFile, CorruptFile}
    \cup {LegacyFile(m, t) : m \in FileMaps, t \in FileThresholds}
    \cup {NewFile(p, c) : p \in FileProfiles, c \in Names}

\* what the user may type or select
NameInputs == Names \cup {""}

NoteInputs == StoreNotes \cup {128}

KeyInputs == {<<"a">>, <<"A">>, <<"a", "b">>, <<" ">>}

InitStore ==
    /\ gui \in {GuiInit(f, NotSaved) : f \in InitialFiles}
    /\ op = NoOp
    /\ mapper = IdleMapper
    /\ keyboard = <<>>
    /\ call = NoCall
    /\ entry = <<>>
    /\ valid = FALSE
    /\ player = IdlePlayer
    /\ converter = IdleConverter

\* the live mapping of the current profile differs from what the file holds
Unsaved(g) ==
    ~(/\ g.file.schema = "new"
      /\ g.current_profile \in DOMAIN g.file.profiles
      /\ g.file.profiles[g.current_profile].midi_map = StrKeys(g.midi_map))

\* one GUI handler run to completion on the GUI thread
Do(name, arg, after) ==
    /\ gui.running
    /\ gui' = after
    /\ op' = [name |-> name, arg |-> arg, ok |-> after # Begin(gui),
              from |-> gui.current_profile, edited |-> gui.midi_map,
              unsaved |-> Unsaved(gui), file_before |-> AbsentFile]
    /\ UNCHANGED <<mapper, keyboard, call, entry, valid, player, converter>>

\* main(): MIDIMapperGUI(root) on whatever file is on disk
Launch ==
    /\ ~gui.running
    /\ LET g0 == GuiInit(gui.file, gui.saved)
           g1 == load_all_profiles(g0)
           g2 == load_profile_without_save(g1, g1.current_profile)
       IN  gui' = [g2 EXCEPT !.running = TRUE]
    /\ op' = [name |-> "launch", arg |-> gui.file.schema, ok |-> TRUE,
              from |-> "", edited |-> EmptyDict,
              unsaved |-> FALSE, file_before |-> gui.file]
    /\ UNCHANGED <<mapper, keyboard, call, entry, valid, player, converter>>

\* the window is closed: on_closing saves, then the process ends
Close ==
    /\ gui.running
    /\ LET g1 == on_closing(Begin(gui))
       IN  gui' = GuiInit(g1.file, g1.saved)
    /\ op' = [name |-> "on_closing", arg |-> "", ok |-> TRUE,
              from |-> gui.current_profile, edited |-> gui.midi_map,
              unsaved |-> Unsaved(gui), file_before |-> AbsentFile]
    /\ UNCHANGED <<mapper, keyboard, call, entry, valid, player, converter>>

SwitchProfile ==
    \E name \in gui.combo :
        Do("switch_profile", name, on_profile_changed(Begin(gui), name))

CreateProfile ==
    \E name \in NameInputs :
        Do("create_new_profile", name, create_new_profile(Begin(gui), name))

RenameProfile ==
    \E name \in NameInputs :
        Do("rename_profile", name, rename_profile(Begin(gui), name))

DeleteProfile ==
    \E confirm \in BOOLEAN, first_key \in Names :
        /\ \/ first_key \in DOMAIN gui.profiles \ {gui.current_profile}
           \/ DOMAIN gui.profiles \subseteq {gui.current_profile}
        /\ Do("delete_profile", IF confirm THEN "yes" ELSE "no",
              delete_profile(Begin(gui), confirm, first_key))

AssignKey ==
    \E midi_note \in NoteInputs, key_var \in KeyInputs :
        Do("assign_key", "", assign_key(Begin(gui), midi_note, key_var))

RemoveMapping ==
    \E midi_note \in DOMAIN gui.midi_map :
        Do("remove_mapping", "", remove_mapping(Begin(gui), midi_note))

ClearAllMappings ==
    \E confirm \in BOOLEAN :
        Do("clear_all_mappings", "", clear_all_mappings(Begin(gui), confirm))

SaveConfig == Do("save_config", "", save_config(Begin(gui)))

NextStore ==
    \/ Launch
    \/ Close
    \/ SwitchProfile
    \/ CreateProfile
    \/ RenameProfile
    \/ DeleteProfile
    \/ AssignKey
    \/ RemoveMapping
    \/ ClearAllMappings
    \/ SaveConfig

SpecStore == InitStore /\ [][NextStore]_vars

\* what one keystroke or one captured chord part adds to the key entry field
Pieces ==
    {<<"+">>,
     <<"a">>,
     <<"_">>,
     <<"f", "1">>,
     <<"u", "p">>,
     <<"a", "l", "t">>,
     <<"c", "t", "r", "l">>,
     <<"s", "h", "i", "f", "t">>}

MaxPieces == 5

RECURSIVE Concat(_)
Concat(ps) == IF ps = <<>> THEN <<>> ELSE Head(ps) \o Concat(Tail(ps))

InitValidate ==
    /\ entry = <<>>
    /\ valid = validate_key_combination(<<>>)
    /\ mapper = IdleMapper
    /\ keyboard = <<>>
    /\ call = NoCall
    /\ gui = IdleGui
    /\ op = NoOp
    /\ player = IdlePlayer
    /\ converter = IdleConverter

\* a piece is added to the entry and the entry's string is validated
TypeKey ==
    /\ Len(entry) < MaxPieces
    /\ \E piece \in Pieces :
        /\ entry' = Append(entry, piece)
        /\ valid' = validate_key_combination(Concat(entry'))
    /\ UNCHANGED <<mapper, keyboard, call, gui, op, player, converter>>

\* the entry is cleared and validated again
ClearKey ==
    /\ entry # <<>>
    /\ entry' = <<>>
    /\ valid' = validate_key_combination(<<>>)
    /\ UNCHANGED <<mapper, keyboard, call, gui, op, player, converter>>

NextValidate == TypeKey \/ ClearKey

SpecValidate == InitValidate /\ [][NextValidate]_vars

(***************************************************************************)
(* Properties of the mapping engine                                        *)
(***************************************************************************)
\* the keyboard actions issued on behalf of one note, in order
NoteLog(note) == SelectSeq(keyboard, LAMBDA e : e.note = note)

Press(key, note) == [act |-> "press", key |-> key, note |-> note]

Release(key, note) == [act |-> "release", key |-> key, note |-> note]

NoDoublePress ==
    \A note \in Notes :
        \A i \in 1..(Len(NoteLog(note)) - 1) :
            ~(NoteLog(note)[i].act = "press" /\ NoteLog(note)[i + 1].act = "press")

RepeatedNoteOnStep ==
    (/\ call'.fn = "handle_note_on"
     /\ call'.velocity >= mapper.velocity_threshold
     /\ call'.note \in DOMAIN mapper.midi_map
     /\ IsActive(mapper, call'.note))
    => (keyboard' = keyboard /\ mapper' = mapper)

\* C1: a handle_note_on(n, v) with v >= velocity_threshold issued while the
\* mapped note n is already active issues no key press and changes nothing,
\* so the actions issued for n never contain two presses in a row.
C1_RepeatedNoteOnIsNoOp == [][RepeatedNoteOnStep]_vars /\ []NoDoublePress

\* note 60 is down, 62 was pressed after it, and a further note-on of 60
\* that passes the velocity gate has been handled without a press
C1_Witness ==
    /\ call.fn = "handle_note_on" /\ call.note = 60
    /\ call.velocity >= mapper.velocity_threshold
    /\ Len(keyboard) = 2
    /\ keyboard[1].act = "press" /\ keyboard[1].note = 60
    /\ keyboard[2].act = "press" /\ keyboard[2].note = 62

NoteOnStep ==
    call'.fn = "handle_note_on" =>
        LET n == call'.note
            v == call'.velocity
        IN  IF v < mapper.velocity_threshold \/ n \notin DOMAIN mapper.midi_map
            THEN keyboard' = keyboard /\ mapper'.active_notes = mapper.active_notes
            ELSE IF ~IsActive(mapper, n)
                 THEN /\ keyboard' = Append(keyboard, Press(mapper.midi_map[n], n))
                      /\ IsActive(mapper', n)
                      /\ \A o \in Notes \ {n} : IsActive(mapper', o) = IsActive(mapper, o)
                      /\ mapper'.midi_map = mapper.midi_map
                 ELSE TRUE

\* C2: handle_note_on(n, v) with v below the threshold or n unmapped issues no
\* keyboard action and leaves active_notes unchanged; with v at or above the
\* threshold and n mapped and not active it issues exactly one press of
\* midi_map[n] and marks n active.
C2_NoteOnFrame == [][NoteOnStep]_vars

\* with threshold 50 a note-on of velocity 60 pressed the key of note 60
C2_Witness ==
    /\ mapper.velocity_threshold = 50
    /\ call = [fn |-> "handle_note_on", note |-> 60, velocity |-> 60]
    /\ Len(keyboard) = 1 /\ keyboard[1].act = "press" /\ keyboard[1].note = 60
    /\ IsActive(mapper, 60)

NoteOffStep ==
    call'.fn = "handle_note_off" =>
        LET n == call'.note
        IN  IF n \in DOMAIN mapper.midi_map /\ IsActive(mapper, n)
            THEN /\ keyboard' = Append(keyboard, Release(mapper.midi_map[n], n))
                 /\ ~IsActive(mapper', n)
            ELSE keyboard' = keyboard /\ mapper' = mapper

ActiveIffLastIsPress ==
    \A note \in Notes :
        IsActive(mapper, note) <=>
            (/\ NoteLog(note) # <<>>
             /\ NoteLog(note)[Len(NoteLog(note))].act = "press")

PressReleaseAlternate ==
    \A note \in Notes :
        \A i \in 1..Len(NoteLog(note)) :
            NoteLog(note)[i].act = (IF i % 2 = 1 THEN "press" ELSE "release")

\* C3: handle_note_off(n) releases midi_map[n] and clears the active flag only
\* when n is mapped and active, and otherwise issues nothing; in every
\* reachable state active_notes[n] holds exactly when the last action issued
\* for n was a press, and per note presses and releases alternate strictly,
\* starting with a press.
C3_NoteOffAndAlternation ==
    [][NoteOffStep]_vars /\ [](ActiveIffLastIsPress /\ PressReleaseAlternate)

\* note 60 was pressed, released and pressed again, the last call being the
\* note-off of another, inactive note
C3_Witness ==
    /\ Len(NoteLog(60)) = 3
    /\ IsActive(mapper, 60)
    /\ call.fn = "handle_note_off" /\ call.note = 62
    /\ 62 \in DOMAIN mapper.midi_map /\ ~IsActive(mapper, 62)

(***************************************************************************)
(* Properties of the profile store                                         *)
(***************************************************************************)
\* the configuration files written by the handler that just ran, in order
Written ==
    LET writes == SelectSeq(gui.log, LAMBDA ev : ev.e = "write")
    IN  [i \in 1..Len(writes) |-> writes[i].file]

\* the position of the first log entry of a kind, 0 when there is none
FirstIndex(kind) ==
    IF \E i \in 1..Len(gui.log) : gui.log[i].e = kind
    THEN CHOOSE i \in 1..Len(gui.log) :
             gui.log[i].e = kind /\ \A j \in 1..(i - 1) : gui.log[j].e # kind
    ELSE 0

\* C4: after a confirmed delete_profile on a store of at least two profiles
\* the deleted name is absent from the in-memory profiles and from every
\* configuration file the deletion writes, and the active profile is one of
\* the remaining profiles.
C4_DeletedProfileIsGone ==
    (gui.running /\ op.name = "delete_profile" /\ op.ok) =>
        /\ op.from \notin DOMAIN gui.profiles
        /\ \A i \in 1..Len(Written) : op.from \notin DOMAIN Written[i].profiles
        /\ gui.file.schema = "new" /\ op.from \notin DOMAIN gui.file.profiles
        /\ gui.current_profile \in DOMAIN gui.profiles \ {op.from}

StoreHasCurrent ==
    gui.running =>
        /\ DOMAIN gui.profiles # {}
        /\ gui.current_profile \in DOMAIN gui.profiles

WrittenFilesHaveCurrent ==
    \A i \in 1..Len(Written) :
        Written[i].current_profile \in DOMAIN Written[i].profiles

\* C5: after load_all_profiles and any sequence of create, rename, delete and
\* switch operations the store holds at least one profile and current_profile
\* names one of them, and every configuration file written by
\* save_all_profiles has a current_profile that is a key of its profiles.
C5_StoreAndFilesHaveCurrent == StoreHasCurrent /\ WrittenFilesHaveCurrent

\* a launch that read a file save_all_profiles had written
Reloaded == gui.running /\ op.name = "launch" /\ gui.saved.by = "save_all_profiles"

\* C6 as stated: saving any store and loading it again yields exactly the
\* saved profiles and the saved current profile.
C6_RoundTripExact ==
    (Reloaded /\ gui.saved.current_profile \in DOMAIN gui.saved.profiles) =>
        /\ gui.profiles = gui.saved.profiles
        /\ gui.current_profile = gui.saved.current_profile

\* C6: saving a store whose current profile is in it and loading it again
\* yields every saved profile with the identical map keyed by integer notes
\* and the same current profile; the only profile the load can add is an
\* empty one named default, and only when the saved store had none.
C6_RoundTripUpToDefault ==
    (Reloaded /\ gui.saved.current_profile \in DOMAIN gui.saved.profiles) =>
        /\ gui.current_profile = gui.saved.current_profile
        /\ \A n \in DOMAIN gui.saved.profiles :
               n \in DOMAIN gui.profiles /\ gui.profiles[n] = gui.saved.profiles[n]
        /\ DOMAIN gui.profiles \subseteq DOMAIN gui.saved.profiles \cup {"default"}
        /\ "default" \notin DOMAIN gui.saved.profiles =>
               gui.profiles["default"] = EmptyDict
        /\ \A n \in DOMAIN gui.profiles : DOMAIN gui.profiles[n] \subseteq 0..127

\* a store of two profiles, one of them default and one mapping notes 7 and
\* 60, was saved on closing and has been loaded again
C6_Witness ==
    /\ Reloaded
    /\ op.file_before.schema = "new"
    /\ DOMAIN gui.saved.profiles = {"default", "A"}
    /\ gui.saved.current_profile = "A"
    /\ DOMAIN gui.profiles["A"] = {7, 60}

\* C7: loading a legacy file {midi_map: M, velocity_threshold: T} gives exactly
\* one profile, default, with map M under integer notes and threshold T, and
\* leaves a new-schema file carrying the same map and the same threshold T.
C7_LegacyMigrationKeepsThreshold ==
    (gui.running /\ op.name = "launch" /\ op.file_before.schema = "legacy") =>
        /\ DOMAIN gui.profiles = {"default"}
        /\ StrKeys(gui.profiles["default"]) = op.file_before.midi_map
        /\ DOMAIN gui.profiles["default"] \subseteq 0..127
        /\ gui.mapper_threshold = op.file_before.velocity_threshold
        /\ gui.file.schema = "new"
        /\ DOMAIN gui.file.profiles = {"default"}
        /\ gui.file.profiles["default"].midi_map = op.file_before.midi_map
        /\ gui.file.profiles["default"].velocity_threshold =
               op.file_before.velocity_threshold

SingleProfileStep ==
    (/\ gui.running
     /\ op'.name \in {"delete_profile", "rename_profile"}
     /\ Cardinality(DOMAIN gui.profiles) = 1)
    => (/\ ~op'.ok
        /\ gui'.profiles = gui.profiles
        /\ gui'.current_profile = gui.current_profile
        /\ gui'.midi_map = gui.midi_map
        /\ gui'.mapper_map = gui.mapper_map
        /\ gui'.player_map = gui.player_map
        /\ gui'.file = gui.file)

\* C8: delete_profile and rename_profile invoked while the store holds exactly
\* one profile are rejected: the profiles, current_profile, the live mapping
\* and the configuration file are all left unchanged.
C8_SingleProfileRejects == [][SingleProfileStep]_vars

\* a confirmed delete was refused on a store whose only profile has a mapping
C8_Witness ==
    /\ gui.running
    /\ op.name = "delete_profile" /\ op.arg = "yes" /\ ~op.ok
    /\ Cardinality(DOMAIN gui.profiles) = 1
    /\ gui.midi_map # EmptyDict

SwitchDone == gui.running /\ op.name = "switch_profile" /\ op.ok

\* the switch left the outgoing profile's edited mapping in the store and in
\* the file, and made the selected profile's mapping live
SwitchStored ==
    /\ gui.profiles[op.from] = op.edited
    /\ gui.file.schema = "new"
    /\ gui.file.profiles[op.from].midi_map = StrKeys(op.edited)
    /\ gui.current_profile = op.arg
    /\ gui.midi_map = gui.profiles[op.arg]
    /\ gui.mapper_map = gui.midi_map

StoredBeforeLive ==
    /\ FirstIndex("store") > 0
    /\ gui.log[FirstIndex("store")].name = op.from
    /\ FirstIndex("store") < FirstIndex("live")

WrittenBeforeLive ==
    /\ FirstIndex("write") > 0
    /\ FirstIndex("write") < FirstIndex("live")

\* switching straight back to the profile that was left
SwitchBackStep ==
    (/\ SwitchDone
     /\ op'.name = "switch_profile" /\ op'.ok /\ op'.arg = op.from)
    => (gui'.midi_map = op.edited /\ gui'.mapper_map = op.edited)

\* C9 as stated: switch_profile(B) has A's edited mapping in the store and in
\* the written configuration file before B's mapping becomes live.
C9_StoredAndWrittenBeforeLive ==
    SwitchDone => (SwitchStored /\ StoredBeforeLive /\ WrittenBeforeLive)

\* C9: switch_profile(B) puts A's edited mapping in the store before B's
\* mapping becomes live and in the configuration file it writes before it
\* returns, and switching back to A restores exactly the edited mapping.
C9_SwitchKeepsEdits ==
    [](SwitchDone => (SwitchStored /\ StoredBeforeLive)) /\ [][SwitchBackStep]_vars

\* profile A was edited to map notes 7 and 60, which the file did not hold,
\* and was then left for another profile with a different mapping
C9_Witness ==
    /\ SwitchDone
    /\ op.from = "A"
    /\ op.unsaved
    /\ DOMAIN op.edited = {7, 60}
    /\ gui.midi_map # op.edited

(***************************************************************************)
(* Properties of validate_key_combination                                  *)
(***************************************************************************)
Modifiers == {<<"c", "t", "r", "l">>, <<"s", "h", "i", "f", "t">>, <<"a", "l", "t">>}

NamedKeys ==
    {<<"s", "p", "a", "c", "e">>,
     <<"e", "n", "t", "e", "r">>,
     <<"t", "a", "b">>,
     <<"e", "s", "c">>,
     <<"b", "a", "c", "k", "s", "p", "a", "c", "e">>,
     <<"d", "e", "l", "e", "t", "e">>,
     <<"i", "n", "s", "e", "r", "t">>,
     <<"u", "p">>,
     <<"d", "o", "w", "n">>,
     <<"l", "e", "f", "t">>,
     <<"r", "i", "g", "h", "t">>,
     <<"h", "o", "m", "e">>,
     <<"e", "n", "d">>,
     <<"p", "a", "g", "e", "_", "u", "p">>,
     <<"p", "a", "g", "e", "_", "d", "o", "w", "n">>,
     <<"f", "1">>,
     <<"f", "2">>,
     <<"f", "3">>,
     <<"f", "4">>,
     <<"f", "5">>,
     <<"f", "6">>,
     <<"f", "7">>,
     <<"f", "8">>,
     <<"f", "9">>,
     <<"f", "1", "0">>,
     <<"f", "1", "1">>,
     <<"f", "1", "2">>}

Alphanumeric ==
    {"a", "b", "c", "d", "e", "f", "g", "h", "i", "j", "k", "l", "m",
     "n", "o", "p", "q", "r", "s", "t", "u", "v", "w", "x", "y", "z",
     "0", "1", "2", "3", "4", "5", "6", "7", "8", "9"}

TerminalKey(s) == (Len(s) = 1 /\ s[1] \in Alphanumeric) \/ s \in NamedKeys

\* zero or more modifiers, each followed by '+', then one terminal key
RECURSIVE InGrammar(_)
InGrammar(s) ==
    \/ TerminalKey(s)
    \/ \E m \in Modifiers :
           /\ Len(s) > Len(m) + 1
           /\ SubSeq(s, 1, Len(m)) = m
           /\ s[Len(m) + 1] = "+"
           /\ InGrammar(SubSeq(s, Len(m) + 2, Len(s)))

\* C10: validate_key_combination(s) is true exactly when s is zero or more of
\* ctrl, shift, alt, each followed by '+', then one terminal token that is a
\* single alphanumeric character or a named key; the empty string, a
\* modifiers-only string, an unknown modifier and a multi-character
\* non-named terminal are rejected.
C10_ValidateMatchesGrammar == valid <=> InGrammar(Concat(entry))

\* "ctrl+shift+a" was entered and accepted
C10_Witness ==
    /\ valid
    /\ entry = <<<<"c", "t", "r", "l">>, <<"+">>, <<"s", "h", "i", "f", "t">>,
                 <<"+">>, <<"a">>>>

(***************************************************************************)
(* Key combinations on the keyboard backend                                *)
(* MIDIToKeyboardMapper.press_key / release_key, src/src/mapper.py         *)
(* _WindowsKeyboard, src/src/keyboard.py                                   *)
(* A backend event is [ev |-> "down" or "up", key |-> the key's name].     *)
(***************************************************************************)
Punctuation == {"-", "=", "[", "]", "\\", ";", "'", ",", ".", "/"}

\* the key names that have a scan code
SCAN_CODES ==
    {<<c>> : c \in Letters \cup Digits \cup Punctuation}
        \cup valid_special \cup valid_modifiers

\* str.strip
strip(s) ==
    LET inked == {i \in 1..Len(s) : s[i] # " "}
    IN  IF inked = {} THEN <<>>
        ELSE SubSeq(s, CHOOSE i \in inked : \A j \in inked : i <= j,
                       CHOOSE i \in inked : \A j \in inked : i >= j)

\* str.lower
lower(s) == [i \in 1..Len(s) |-> Lower(s[i])]

\* a backend that lets go of the modifiers in the order it pressed them
reversedAsGiven(seq) == seq

\* reversed(modifiers)
reversed(seq) == [i \in 1..Len(seq) |-> seq[Len(seq) + 1 - i]]

\* _WindowsKeyboard.press_key: an event is sent when the key has a scan code
win_press_key(key) ==
    IF key \in SCAN_CODES THEN <<[ev |-> "down", key |-> key]>> ELSE <<>>

\* _WindowsKeyboard.release_key
win_release_key(key) ==
    IF key \in SCAN_CODES THEN <<[ev |-> "up", key |-> key]>> ELSE <<>>

RECURSIVE PressEach(_)
PressEach(keys) ==
    IF keys = <<>> THEN <<>> ELSE win_press_key(Head(keys)) \o PressEach(Tail(keys))

RECURSIVE ReleaseEach(_)
ReleaseEach(keys) ==
    IF keys = <<>> THEN <<>>
    ELSE win_release_key(Head(keys)) \o ReleaseEach(Tail(keys))

\* _WindowsKeyboard.press_combination
press_combination(modifiers, key) ==
    PressEach(modifiers)
        \o (IF key # <<>> THEN win_press_key(key) \o win_release_key(key) ELSE <<>>)
        \o ReleaseEach(reversed(modifiers))

\* the parts of a combination string, each stripped
ComboParts(key_lower) ==
    LET parts == split(key_lower)
    IN  [i \in 1..Len(parts) |-> strip(parts[i])]

\* the parts that are modifiers, in the order they are written
ComboModifiers(key_lower) ==
    SelectSeq(ComboParts(key_lower), LAMBDA part : part \in valid_modifiers)

\* the last part that is not a modifier; <<>> stands for None and for the empty string
ComboCharKey(key_lower) ==
    LET others == SelectSeq(ComboParts(key_lower),
                            LAMBDA part : part \notin valid_modifiers)
    IN  IF others = <<>> THEN <<>> ELSE others[Len(others)]

\* the backend events of MIDIToKeyboardMapper.press_key(key)
mapper_press_key(key) ==
    LET key_lower == strip(lower(key))
    IN  IF \E i \in 1..Len(key_lower) : key_lower[i] = "+"
        THEN IF ComboCharKey(key_lower) # <<>>
             THEN press_combination(ComboModifiers(key_lower),
                                    ComboCharKey(key_lower))
             ELSE PressEach(ComboModifiers(key_lower))
        ELSE win_press_key(key_lower)

\* the backend events of MIDIToKeyboardMapper.release_key(key)
mapper_release_key(key) ==
    LET key_lower == strip(lower(key))
    IN  IF \E i \in 1..Len(key_lower) : key_lower[i] = "+"
        THEN IF ComboCharKey(key_lower) # <<>>
             THEN win_release_key(ComboCharKey(key_lower))
                      \o ReleaseEach(reversed(ComboModifiers(key_lower)))
             ELSE ReleaseEach(reversed(ComboModifiers(key_lower)))
        ELSE win_release_key(key_lower)

ComboCall(fn) == [fn |-> fn, note |-> 0, velocity |-> 0]

InitCombo ==
    /\ entry = <<>>
    /\ keyboard = <<>>
    /\ call = NoCall
    /\ valid = FALSE
    /\ mapper = IdleMapper
    /\ gui = IdleGui
    /\ op = NoOp
    /\ player = IdlePlayer
    /\ converter = IdleConverter

\* a piece is added to the key string that a note is mapped to
TypeCombo ==
    /\ call = NoCall
    /\ Len(entry) < MaxPieces
    /\ \E piece \in Pieces : entry' = Append(entry, piece)
    /\ UNCHANGED <<mapper, keyboard, call, gui, op, valid, player, converter>>

\* the mapped key is pressed
PressCombo ==
    /\ call = NoCall
    /\ keyboard' = keyboard \o mapper_press_key(Concat(entry))
    /\ call' = ComboCall("press_key")
    /\ UNCHANGED <<mapper, gui, op, entry, valid, player, converter>>

\* the mapped key is released
ReleaseCombo ==
    /\ call = ComboCall("press_key")
    /\ keyboard' = keyboard \o mapper_release_key(Concat(entry))
    /\ call' = ComboCall("release_key")
    /\ UNCHANGED <<mapper, gui, op, entry, valid, player, converter>>

NextCombo == TypeCombo \/ PressCombo \/ ReleaseCombo

SpecCombo == InitCombo /\ [][NextCombo]_vars

(***************************************************************************)
(* Properties of key combinations                                          *)
(***************************************************************************)
\* at least one modifier, each followed by '+', then one terminal key
IsCombo(s) == InGrammar(s) /\ ~TerminalKey(s)

Down(key) == [ev |-> "down", key |-> key]

Up(key) == [ev |-> "up", key |-> key]

ModifiersOutermost(trace, modifiers, terminal) ==
    LET n == Len(modifiers)
        ModifierUp(i) == trace[i].ev = "up" /\ trace[i].key \in valid_modifiers
    IN  /\ trace # <<>>
        /\ \E i \in 1..Len(trace) : trace[i] = Down(terminal)
        /\ \A i, j \in 1..Len(trace) :
               /\ trace[i].ev = "down"
               /\ trace[i].key \in valid_modifiers
               /\ trace[j] = Down(terminal)
               => i < j
        /\ \A i \in 1..Len(trace) :
               trace[i] = Up(terminal) =>
                   /\ i + n <= Len(trace)
                   /\ \A k \in 1..n : trace[i + k] = Up(modifiers[n + 1 - k])
        /\ \A i \in 1..Len(trace) :
               ModifierUp(i) =>
                   \E b \in 1..(i - 1) : trace[b] = Up(terminal) /\ i <= b + n
        /\ trace[1].ev = "down" /\ trace[1].key \in valid_modifiers
        /\ ModifierUp(Len(trace))

\* C11: for a key string of modifiers and a terminal key, the backend events
\* of press_key followed by release_key have every modifier-down before the
\* terminal key's down, after each up of the terminal key the ups of all the
\* modifiers in the reverse of their press order, no modifier-up elsewhere,
\* a modifier-down first and a modifier-up last.
C11_ModifiersOutermost ==
    (call = ComboCall("release_key") /\ IsCombo(Concat(entry)))
        => ModifiersOutermost(keyboard, ComboModifiers(Concat(entry)),
                              ComboCharKey(Concat(entry)))

\* "ctrl+shift+a" was pressed and released
C11_Witness ==
    /\ call = ComboCall("release_key")
    /\ Concat(entry) = <<"c", "t", "r", "l", "+", "s", "h", "i", "f", "t", "+", "a">>
    /\ keyboard =
           << Down(<<"c", "t", "r", "l">>), Down(<<"s", "h", "i", "f", "t">>),
              Down(<<"a">>), Up(<<"a">>),
              Up(<<"s", "h", "i", "f", "t">>), Up(<<"c", "t", "r", "l">>),
              Up(<<"a">>),
              Up(<<"s", "h", "i", "f", "t">>), Up(<<"c", "t", "r", "l">>) >>

(***************************************************************************)
(* Note-range adjustment of the MIDI file player                           *)
(* MIDIFilePlayer._apply_note_adjustment / set_note_adjustment,            *)
(* src/src/gui.py                                                          *)
(***************************************************************************)
DEFAULT_BASE_NOTE == 48

DEFAULT_NOTE_RANGE == 36

Octave == 12

Min(S) == CHOOSE x \in S : \A y \in S : x <= y

Max(S) == CHOOSE x \in S : \A y \in S : x >= y

\* max(lo, min(hi, x))
Clamp(lo, hi, x) == IF x < lo THEN lo ELSE IF x > hi THEN hi ELSE x

\* a transpose that centres the song and never nudges it back into range
TransposeCentred(unique_notes, base_note, note_range) ==
    IF Max(unique_notes) - Min(unique_notes) + 1 <= note_range
    THEN (base_note + (note_range \div 2))
             - ((Min(unique_notes) + Max(unique_notes)) \div 2)
    ELSE base_note - Min(unique_notes)

\* the transpose amount chosen for a song with these distinct pitches
Transpose(unique_notes, base_note, note_range) ==
    LET min_note == Min(unique_notes)
        max_note == Max(unique_notes)
        original_range == max_note - min_note + 1
    IN  IF original_range <= note_range
        THEN LET song_center == (min_note + max_note) \div 2
                 target_center == base_note + (note_range \div 2)
                 transpose == target_center - song_center
                 transposed_min == min_note + transpose
                 transposed_max == max_note + transpose
             IN  IF transposed_min < base_note
                 THEN transpose + (base_note - transposed_min)
                 ELSE IF transposed_max >= base_note + note_range
                      THEN transpose - (transposed_max - (base_note + note_range - 1))
                      ELSE transpose
        ELSE base_note - min_note

\* while adjusted < self.base_note: adjusted += 12
RECURSIVE FoldUp(_, _)
FoldUp(adjusted, base_note) ==
    IF adjusted < base_note THEN FoldUp(adjusted + Octave, base_note) ELSE adjusted

\* while adjusted >= self.base_note + self.note_range: adjusted -= 12
RECURSIVE FoldDown(_, _)
FoldDown(adjusted, limit) ==
    IF adjusted >= limit THEN FoldDown(adjusted - Octave, limit) ELSE adjusted

\* an adjustment that transposes and neither folds nor clamps
AdjustedTransposedOnly(note, transpose, base_note, note_range) == note + transpose

\* an adjustment that clips an outlier to the edge of the range
AdjustedClipped(note, transpose, base_note, note_range) ==
    Clamp(base_note, base_note + note_range - 1, note + transpose)

\* the adjusted pitch of one pitch: transpose, fold, final clamp
Adjusted(note, transpose, base_note, note_range) ==
    Clamp(base_note, base_note + note_range - 1,
          FoldDown(FoldUp(note + transpose, base_note), base_note + note_range))

\* note_mapping, for the pitches of the file
note_mapping(unique_notes, base_note, note_range) ==
    IF unique_notes = {} THEN EmptyDict
    ELSE [note \in unique_notes |->
              Adjusted(note, Transpose(unique_notes, base_note, note_range),
                       base_note, note_range)]

\* the adjusted pitch of every pitch of the file under the player's settings
ApplyNoteAdjustment(p) ==
    [p EXCEPT !.note_mapping =
        IF p.adjust_notes
        THEN note_mapping(p.unique_notes, p.base_note, p.note_range)
        ELSE [note \in p.unique_notes |-> note]]

set_note_adjustment(p, enabled, base_note, note_range) ==
    ApplyNoteAdjustment([p EXCEPT !.adjust_notes = enabled,
                                  !.base_note = Clamp(0, 96, base_note),
                                  !.note_range = Clamp(12, 88, note_range)])

\* the pitches a loaded file may hold, and how many distinct ones
SongPitches == {0, 11, 12, 23, 47, 48, 60, 65, 96, 127}

MaxSongPitches == 3

Songs == {S \in SUBSET SongPitches : S # {} /\ Cardinality(S) <= MaxSongPitches}

BaseInputs == {-1, 0, 48, 96, 97}

RangeInputs == {11, 12, 13, 36, 88, 89}

InitAdjust ==
    /\ player = [mode |-> "adjust", adjust_notes |-> TRUE,
                 base_note |-> DEFAULT_BASE_NOTE, note_range |-> DEFAULT_NOTE_RANGE,
                 unique_notes |-> {}, note_mapping |-> EmptyDict]
    /\ mapper = IdleMapper
    /\ keyboard = <<>>
    /\ call = NoCall
    /\ gui = IdleGui
    /\ op = NoOp
    /\ entry = <<>>
    /\ valid = FALSE
    /\ converter = IdleConverter

\* a file with these pitches is loaded and adjusted
LoadNotes ==
    \E song \in Songs :
        /\ player' = ApplyNoteAdjustment([player EXCEPT !.unique_notes = song])
        /\ UNCHANGED <<mapper, keyboard, call, gui, op, entry, valid, converter>>

\* the adjustment settings are changed and the loaded file adjusted again
SetNoteAdjustment ==
    \E enabled \in BOOLEAN, base_note \in BaseInputs, note_range \in RangeInputs :
        /\ player' = set_note_adjustment(player, enabled, base_note, note_range)
        /\ UNCHANGED <<mapper, keyboard, call, gui, op, entry, valid, converter>>

NextAdjust == LoadNotes \/ SetNoteAdjustment

SpecAdjust == InitAdjust /\ [][NextAdjust]_vars

(***************************************************************************)
(* Properties of the note-range adjustment                                 *)
(***************************************************************************)
AdjustedFile == player.adjust_notes /\ player.unique_notes # {}

Span == Max(player.unique_notes) - Min(player.unique_notes) + 1

Fits == Span <= player.note_range

InRange(pitch) ==
    player.base_note <= pitch /\ pitch < player.base_note + player.note_range

\* C16: with adjustment enabled every distinct pitch of the file is mapped
\* to a pitch inside [base_note, base_note + note_range), whether the span
\* fits the range or exceeds it.
C16_AdjustedInRange ==
    AdjustedFile =>
        /\ player.base_note \in 0..96
        /\ player.note_range \in 12..88
        /\ \A note \in player.unique_notes : InRange(player.note_mapping[note])

\* a file whose span exceeds the range and one whose span fits it are adjusted
\* under base 96 and range 88
C16_Witness ==
    /\ AdjustedFile
    /\ player.base_note = 96
    /\ player.note_range = 88
    /\ player.unique_notes = {0, 127}
    /\ player.note_mapping[127] = 175

\* C17: when the span exceeds note_range, adjusted - original is divisible
\* by 12 for every distinct pitch.
C17_FoldByOctavesOnly ==
    (AdjustedFile /\ ~Fits) =>
        \A note \in player.unique_notes :
            (player.note_mapping[note] - note) % 12 = 0

\* C17, amended: when the span exceeds note_range, every pitch is first
\* transposed by base_note - min and then moved by a multiple of 12, so
\* adjusted - original - (base_note - min) is divisible by 12, and the
\* final clamp alters nothing.
C17_FoldAfterTranspose ==
    (AdjustedFile /\ ~Fits) =>
        \A note \in player.unique_notes :
            /\ (player.note_mapping[note] - note
                    - (player.base_note - Min(player.unique_notes))) % 12 = 0
            /\ InRange(player.note_mapping[note])

\* pitches 47 and 60 under base 48 and range 12: 47 becomes 48, 60 becomes 49
C17_Witness ==
    /\ AdjustedFile
    /\ ~Fits
    /\ player.base_note = 48
    /\ player.note_range = 12
    /\ player.unique_notes = {47, 60}
    /\ player.note_mapping = (47 :> 48) @@ (60 :> 49)

\* C18: when the span fits note_range every pitch is shifted by one and the
\* same offset, and the shifted minimum and maximum are inside
\* [base_note, base_note + note_range).
C18_CenteringIsOneOffset ==
    (AdjustedFile /\ Fits) =>
        LET offset == player.note_mapping[Min(player.unique_notes)]
                          - Min(player.unique_notes)
        IN  /\ \A note \in player.unique_notes :
                   player.note_mapping[note] = note + offset
            /\ InRange(Min(player.unique_notes) + offset)
            /\ InRange(Max(player.unique_notes) + offset)

\* pitches 0 and 11 under base 48 and range 12, where the centring offset
\* has to be nudged down by one
C18_Witness ==
    /\ AdjustedFile
    /\ Fits
    /\ player.base_note = 48
    /\ player.note_range = 12
    /\ player.unique_notes = {0, 11}
    /\ player.note_mapping = (0 :> 48) @@ (11 :> 59)

(***************************************************************************)
(* Humanize (misclick) of the MIDI file player                             *)
(* MIDIFilePlayer._apply_misclick / set_misclick_settings, src/src/gui.py  *)
(* The random draws are inputs: roll is random.random() * 100, offset is   *)
(* random.randint(-misclick_range, misclick_range), choice is              *)
(* random.choice([-1, 1]).                                                 *)
(***************************************************************************)
MidiNotes == 0..127

\* an activated misclick that keeps a drawn offset of zero
KeepOffset(offset, choice) == offset

\* if offset == 0: offset = random.choice([-1, 1])
ForceOffset(offset, choice) == IF offset = 0 THEN choice ELSE offset

\* a misclick step that does not look at misclick_enabled
apply_misclick_unchecked(p, note, roll, offset, choice) ==
    IF roll > p.misclick_rate THEN note
    ELSE Clamp(0, 127, note + ForceOffset(offset, choice))

\* _apply_misclick(note) under the settings of p and the given draws
apply_misclick(p, note, roll, offset, choice) ==
    IF ~p.misclick_enabled THEN note
    ELSE IF roll > p.misclick_rate THEN note
         ELSE Clamp(0, 127, note + ForceOffset(offset, choice))

set_misclick_settings(p, enabled, rate, note_range) ==
    [p EXCEPT !.misclick_enabled = enabled,
              !.misclick_rate = Clamp(0, 100, rate),
              !.misclick_range = Clamp(1, 12, note_range)]

\* values of random.random() * 100, which is at least 0 and below 100
Rolls == {0, 2, 3, 99}

RateInputs == {-5, 0, 2, 100, 250}

MisclickRangeInputs == 0..13

\* the player as constructed, before any note-on is humanized
DefaultMisclick ==
    [mode |-> "misclick", misclick_enabled |-> FALSE, misclick_rate |-> 2,
     misclick_range |-> 2, called |-> FALSE, note |-> 0, actual_note |-> 0]

InitMisclick ==
    /\ player \in {set_misclick_settings(DefaultMisclick, enabled, rate, note_range) :
                       enabled \in BOOLEAN, rate \in RateInputs,
                       note_range \in MisclickRangeInputs}
    /\ mapper = IdleMapper
    /\ keyboard = <<>>
    /\ call = NoCall
    /\ gui = IdleGui
    /\ op = NoOp
    /\ entry = <<>>
    /\ valid = FALSE
    /\ converter = IdleConverter

\* a note-on event goes through the misclick step
ApplyMisclick ==
    /\ ~player.called
    /\ \E note \in MidiNotes, roll \in Rolls, choice \in {-1, 1},
          offset \in (-player.misclick_range)..player.misclick_range :
           player' = [player EXCEPT
                          !.called = TRUE,
                          !.note = note,
                          !.actual_note =
                              apply_misclick(player, note, roll, offset, choice)]
    /\ UNCHANGED <<mapper, keyboard, call, gui, op, entry, valid, converter>>

NextMisclick == ApplyMisclick

SpecMisclick == InitMisclick /\ [][NextMisclick]_vars

(***************************************************************************)
(* Properties of the misclick step                                         *)
(***************************************************************************)
\* C19: with humanize enabled at rate 100 every note-on becomes
\* clamp(note + d, 0, 127) for some d with 1 <= |d| <= misclick_range, for
\* every note in 0..127 and every misclick_range in 1..12.
C19_AlwaysSubstitutedAtFullRate ==
    (player.called /\ player.misclick_enabled /\ player.misclick_rate = 100) =>
        /\ player.misclick_range \in 1..12
        /\ \E d \in (-player.misclick_range)..player.misclick_range :
               /\ d # 0
               /\ player.actual_note = Clamp(0, 127, player.note + d)

\* at rate 100 and range 12 note 60 became 61, which only a zero offset
\* redrawn as +1 or an offset of +1 can produce
C19_Witness ==
    /\ player.called
    /\ player.misclick_enabled
    /\ player.misclick_rate = 100
    /\ player.misclick_range = 12
    /\ player.note = 60
    /\ player.actual_note = 61

(***************************************************************************)
(* Playback of the MIDI file player                                        *)
(* MIDIFilePlayer.load_file, play, pause, stop, seek_to, _play_loop,       *)
(* _play_loop_from_position, _release_all_keys, src/src/gui.py             *)
(*                                                                         *)
(* The caller (the GUI thread) and every playback thread take their steps  *)
(* interleaved.  A step is one of: a whole call of play, pause or          *)
(* set_speed; the part of stop or seek_to up to the snapshot               *)
(* list(self.active_notes); the releases and active_notes.clear(); the     *)
(* join and restart of seek_to; the loop test of a playback thread; the    *)
(* processing of one event; the search of the start index.  The wall       *)
(* clock is not modelled: a loop that is not paused may find its next      *)
(* event due at any time.  join(timeout=0.5) is taken to return because    *)
(* the thread has exited, the loop polling its flags every 10 ms.          *)
(* Every key press and release the player issues is appended to            *)
(* player.log as [pass, act, note, key, index]: the playback thread the    *)
(* dispatch belongs to, "press" or "release", the note looked up in        *)
(* midi_map, its key, and the index of the event (0 for a release made     *)
(* by _release_all_keys).                                                  *)
(***************************************************************************)
\* a message of the file: delta time, kind, note
Msg(time, type, note) == [time |-> time, type |-> type, note |-> note]

\* the events of the file in absolute time, each with its place in the list
RECURSIVE original_events(_, _, _)
original_events(msgs, current_time, place) ==
    IF msgs = <<>> THEN <<>>
    ELSE LET msg == Head(msgs)
             now == current_time + msg.time
         IN  (IF msg.type \in {"on", "off"}
              THEN <<[time |-> now, type |-> msg.type, note |-> msg.note,
                      place |-> place]>>
              ELSE <<>>)
                 \o original_events(Tail(msgs), now, place + 1)

RECURSIVE SumTimes(_)
SumTimes(msgs) == IF msgs = <<>> THEN 0 ELSE Head(msgs).time + SumTimes(Tail(msgs))

\* a sort that puts the later of two simultaneous events first
RECURSIVE SortedLatestFirst(_)
SortedLatestFirst(events) ==
    IF events = <<>> THEN <<>>
    ELSE LET first == CHOOSE i \in 1..Len(events) :
                          \A j \in 1..Len(events) :
                              \/ events[i].time < events[j].time
                              \/ events[i].time = events[j].time /\ i >= j
         IN  <<events[first]>>
                 \o SortedLatestFirst([k \in 1..(Len(events) - 1) |->
                                          IF k < first THEN events[k]
                                          ELSE events[k + 1]])

\* list.sort(key=lambda x: x[0]): a stable sort by time
RECURSIVE Sorted(_)
Sorted(events) ==
    IF events = <<>> THEN <<>>
    ELSE LET first == CHOOSE i \in 1..Len(events) :
                          \A j \in 1..Len(events) :
                              \/ events[i].time < events[j].time
                              \/ events[i].time = events[j].time /\ i <= j
         IN  <<events[first]>>
                 \o Sorted([k \in 1..(Len(events) - 1) |->
                               IF k < first THEN events[k] ELSE events[k + 1]])

\* self.events: the sorted events with their notes adjusted, or a copy
adjusted_events(p, events) ==
    LET unique_notes == {events[i].note : i \in 1..Len(events)}
        mapping == note_mapping(unique_notes, p.base_note, p.note_range)
    IN  IF p.adjust_notes
        THEN [i \in 1..Len(events) |->
                  [events[i] EXCEPT !.note = mapping[events[i].note]]]
        ELSE events

\* a load that takes the time of the last note event for the duration
load_file_to_last_event(p, msgs) ==
    LET events == Sorted(original_events(msgs, 0, 1))
    IN  [p EXCEPT !.events = adjusted_events(p, events),
                  !.total_duration = IF events = <<>> THEN 0
                                     ELSE events[Len(events)].time]

load_file(p, msgs) ==
    LET events == Sorted(original_events(msgs, 0, 1))
    IN  [p EXCEPT !.events = adjusted_events(p, events),
                  !.total_duration = IF events = <<>> THEN 0 ELSE SumTimes(msgs)]

\* the dispatch of one key press or release
Dispatch(pass, act, note, key, index) ==
    [pass |-> pass, act |-> act, note |-> note, key |-> key, index |-> index]

\* the releases _release_all_keys makes for the notes of its snapshot
RECURSIVE ReleaseLog(_, _, _)
ReleaseLog(notes, midi_map, pass) ==
    IF notes = {} THEN <<>>
    ELSE LET note == Min(notes)
         IN  (IF note \in DOMAIN midi_map
              THEN <<Dispatch(pass, "release", note, midi_map[note], 0)>>
              ELSE <<>>)
                 \o ReleaseLog(notes \ {note}, midi_map, pass)

\* _release_all_keys after list(self.active_notes) was taken
release_all_keys(p, snapshot, pass) ==
    [p EXCEPT !.log = @ \o ReleaseLog(snapshot, p.midi_map, pass),
              !.active_notes = {}]

\* the body of the playback loop for the event at event_index
process_event(p, pass, event_index, roll, offset, choice) ==
    LET event == p.events[event_index]
        note == event.note
        misclicked == IF event.type = "on"
                      THEN apply_misclick(p, note, roll, offset, choice)
                      ELSE note
        popped == event.type = "off" /\ note \in DOMAIN p.misclick_mapping
        actual_note == IF popped THEN p.misclick_mapping[note] ELSE misclicked
        mapping1 == IF popped THEN DictDel(p.misclick_mapping, note)
                    ELSE p.misclick_mapping
        p1 == [p EXCEPT !.misclick_mapping = mapping1,
                        !.current_position = event.time]
    IN  IF actual_note \notin DOMAIN p.midi_map THEN p1
        ELSE LET key == p.midi_map[actual_note]
             IN  IF event.type = "on"
                 THEN [p1 EXCEPT
                          !.misclick_mapping =
                              IF actual_note # note
                              THEN DictSet(mapping1, note, actual_note)
                              ELSE mapping1,
                          !.log = Append(@, Dispatch(pass, "press", actual_note,
                                                     key, event_index)),
                          !.active_notes = @ \cup {actual_note}]
                 ELSE [p1 EXCEPT
                          !.log = Append(@, Dispatch(pass, "release", actual_note,
                                                     key, event_index)),
                          !.active_notes = @ \ {actual_note}]

\* the caller is not inside stop or seek_to
IdleUi ==
    [pc |-> "idle", snapshot |-> {}, was_playing |-> FALSE, was_paused |-> FALSE,
     target |-> 0]

\* a playback thread that has just been started
NewThread(pc, start_position) ==
    [pc |-> pc, event_index |-> 1, start_position |-> start_position,
     snapshot |-> {}, dispatched |-> <<>>]

\* threading.Thread(...).start(): the new thread becomes self.play_thread
StartThread(p, pc, start_position) ==
    [p EXCEPT !.threads = Append(@, NewThread(pc, start_position)),
              !.play_thread = Len(p.threads) + 1]

\* self.play_thread is set and is_alive()
PlayThreadAlive(p) ==
    p.play_thread # 0 /\ p.threads[p.play_thread].pc # "done"

\* the pass a release made by the caller belongs to
CurrentPass(p) == p.play_thread

play(p) ==
    IF p.events = <<>> THEN p
    ELSE IF p.paused THEN [p EXCEPT !.paused = FALSE]
    ELSE StartThread([p EXCEPT !.playing = TRUE,
                               !.paused = FALSE,
                               !.current_position = 0,
                               !.misclick_mapping = EmptyDict],
                     "loop", 0)

pause(p) == [p EXCEPT !.paused = TRUE]

\* speeds are counted in quarters: 1 is 0.25x, 16 is 4.0x
set_speed(p, speed) == [p EXCEPT !.speed = Clamp(1, 16, speed)]

\* stop up to the snapshot taken by _release_all_keys
stop_begin(p) ==
    [p EXCEPT !.playing = FALSE,
              !.paused = FALSE,
              !.ui = [IdleUi EXCEPT !.pc = "stop_release",
                                    !.snapshot = p.active_notes]]

\* the rest of stop
stop_end(p) ==
    [release_all_keys(p, p.ui.snapshot, CurrentPass(p))
        EXCEPT !.current_position = 0, !.ui = IdleUi]

\* seek_to up to the snapshot taken by _release_all_keys
seek_begin(p, target_time) ==
    IF p.events = <<>> THEN p
    ELSE [p EXCEPT !.playing = FALSE,
                   !.paused = FALSE,
                   !.ui = [pc |-> "seek_release",
                           snapshot |-> p.active_notes,
                           was_playing |-> p.playing,
                           was_paused |-> p.paused,
                           target |-> Clamp(0, p.total_duration, target_time)]]

\* the releases of seek_to
seek_release(p) ==
    [release_all_keys(p, p.ui.snapshot, CurrentPass(p)) EXCEPT !.ui.pc = "seek_join"]

\* the rest of seek_to once the join has returned: _start_from_position
seek_end(p) ==
    LET p1 == [p EXCEPT !.current_position = p.ui.target, !.ui = IdleUi]
    IN  IF p.ui.was_playing /\ ~p.ui.was_paused
        THEN StartThread([p1 EXCEPT !.playing = TRUE,
                                    !.paused = FALSE,
                                    !.misclick_mapping = EmptyDict],
                         "find", p.ui.target)
        ELSE p1

\* a restart that plays from the first event of the file
find_start_at_first_event(p, t) ==
    [p EXCEPT !.threads[t].pc = "loop", !.threads[t].event_index = 1]

\* _play_loop_from_position: the first event at or after the start position
find_start(p, t) ==
    LET later == {i \in 1..Len(p.events) :
                      p.events[i].time >= p.threads[t].start_position}
    IN  IF later = {}
        THEN [p EXCEPT !.playing = FALSE, !.threads[t].pc = "done"]
        ELSE [p EXCEPT !.threads[t].pc = "loop",
                       !.threads[t].event_index = Min(later)]

\* event_index += 1
NextIndex(event_index) == event_index + 1

\* the pause wait tests self.paused alone
loop_test_waits_for_resume(p, t, due) ==
    IF p.paused THEN p
    ELSE IF p.playing /\ p.threads[t].event_index <= Len(p.events)
    THEN IF ~due THEN p
         ELSE [p EXCEPT !.threads[t].pc = "event"]
    ELSE [p EXCEPT !.threads[t].pc = "release",
                   !.threads[t].snapshot = p.active_notes]

\* while self.playing and event_index < len(self.events), with the pause
\* wait; leaving the loop enters _release_all_keys and takes its snapshot
loop_test(p, t, due) ==
    IF p.playing /\ p.threads[t].event_index <= Len(p.events)
    THEN IF p.paused \/ ~due THEN p
         ELSE [p EXCEPT !.threads[t].pc = "event"]
    ELSE [p EXCEPT !.threads[t].pc = "release",
                   !.threads[t].snapshot = p.active_notes]

\* one event is processed and the index stepped
loop_body(p, t, roll, offset, choice) ==
    [process_event(p, t, p.threads[t].event_index, roll, offset, choice)
        EXCEPT !.threads[t].pc = "loop",
               !.threads[t].dispatched = Append(@, p.threads[t].event_index),
               !.threads[t].event_index = NextIndex(@)]

\* the end of the loop function: the releases, then self.playing = False
loop_exit(p, t) ==
    [release_all_keys(p, p.threads[t].snapshot, t)
        EXCEPT !.playing = FALSE, !.threads[t].pc = "done"]

\* the files that are played
MidiFiles ==
    {<<Msg(0, "on", 60), Msg(0, "on", 61), Msg(1, "off", 60)>>,
     <<Msg(0, "off", 60), Msg(1, "on", 60), Msg(1, "other", 0)>>}

\* the mapping the player plays through
PlayerMap == (60 :> <<"a">>) @@ (61 :> <<"s">>)

MaxThreads == 2

MaxDispatch == 4

SpeedInputs == {4, 8}

SeekInputs == {-1, 1, 5}

\* MIDIFilePlayer.__init__, then set_note_adjustment and set_misclick_settings
NewPlayer(adjust_notes, misclick_enabled, misclick_rate, misclick_range) ==
    [mode |-> "play",
     midi_map |-> PlayerMap,
     playing |-> FALSE,
     paused |-> FALSE,
     speed |-> 4,
     events |-> <<>>,
     total_duration |-> 0,
     current_position |-> 0,
     play_thread |-> 0,
     active_notes |-> {},
     adjust_notes |-> adjust_notes,
     base_note |-> DEFAULT_BASE_NOTE,
     note_range |-> DEFAULT_NOTE_RANGE,
     misclick_enabled |-> misclick_enabled,
     misclick_rate |-> Clamp(0, 100, misclick_rate),
     misclick_range |-> Clamp(1, 12, misclick_range),
     misclick_mapping |-> EmptyDict,
     threads |-> <<>>,
     ui |-> IdleUi,
     log |-> <<>>]

\* a file has been loaded into a new player with adjustment and humanize off
InitPlayer ==
    /\ player \in {load_file(NewPlayer(FALSE, FALSE, 2, 2), msgs) : msgs \in MidiFiles}
    /\ mapper = IdleMapper
    /\ keyboard = <<>>
    /\ call = NoCall
    /\ gui = IdleGui
    /\ op = NoOp
    /\ entry = <<>>
    /\ valid = FALSE
    /\ converter = IdleConverter

\* the step leaves room in the log and in the thread table
Bounded(p) ==
    /\ Len(p.log) <= MaxDispatch
    /\ Len(p.threads) <= MaxThreads
    /\ \A t \in 1..Len(p.threads) : Len(p.threads[t].dispatched) <= MaxDispatch

CallerIdle == player.ui.pc = "idle"

Play ==
    /\ CallerIdle
    /\ Bounded(play(player))
    /\ player' = play(player)
    /\ UNCHANGED <<mapper, keyboard, call, gui, op, entry, valid, converter>>

Pause ==
    /\ CallerIdle
    /\ player' = pause(player)
    /\ UNCHANGED <<mapper, keyboard, call, gui, op, entry, valid, converter>>

SetSpeed ==
    /\ CallerIdle
    /\ \E speed \in SpeedInputs : player' = set_speed(player, speed)
    /\ UNCHANGED <<mapper, keyboard, call, gui, op, entry, valid, converter>>

StopBegin ==
    /\ CallerIdle
    /\ player' = stop_begin(player)
    /\ UNCHANGED <<mapper, keyboard, call, gui, op, entry, valid, converter>>

StopEnd ==
    /\ player.ui.pc = "stop_release"
    /\ Bounded(stop_end(player))
    /\ player' = stop_end(player)
    /\ UNCHANGED <<mapper, keyboard, call, gui, op, entry, valid, converter>>

SeekBegin ==
    /\ CallerIdle
    /\ \E target_time \in SeekInputs : player' = seek_begin(player, target_time)
    /\ UNCHANGED <<mapper, keyboard, call, gui, op, entry, valid, converter>>

SeekRelease ==
    /\ player.ui.pc = "seek_release"
    /\ Bounded(seek_release(player))
    /\ player' = seek_release(player)
    /\ UNCHANGED <<mapper, keyboard, call, gui, op, entry, valid, converter>>

\* play_thread.join returns when the thread has exited
SeekEnd ==
    /\ player.ui.pc = "seek_join"
    /\ ~PlayThreadAlive(player)
    /\ Bounded(seek_end(player))
    /\ player' = seek_end(player)
    /\ UNCHANGED <<mapper, keyboard, call, gui, op, entry, valid, converter>>

ThreadFind ==
    /\ \E t \in 1..Len(player.threads) :
           /\ player.threads[t].pc = "find"
           /\ player' = find_start(player, t)
    /\ UNCHANGED <<mapper, keyboard, call, gui, op, entry, valid, converter>>

ThreadTest ==
    /\ \E t \in 1..Len(player.threads), due \in BOOLEAN :
           /\ player.threads[t].pc = "loop"
           /\ player' = loop_test(player, t, due)
    /\ UNCHANGED <<mapper, keyboard, call, gui, op, entry, valid, converter>>

ThreadBody ==
    /\ \E t \in 1..Len(player.threads), roll \in Rolls, choice \in {-1, 1},
          offset \in (-player.misclick_range)..player.misclick_range :
           /\ player.threads[t].pc = "event"
           /\ Bounded(loop_body(player, t, roll, offset, choice))
           /\ player' = loop_body(player, t, roll, offset, choice)
    /\ UNCHANGED <<mapper, keyboard, call, gui, op, entry, valid, converter>>

ThreadExit ==
    /\ \E t \in 1..Len(player.threads) :
           /\ player.threads[t].pc = "release"
           /\ Bounded(loop_exit(player, t))
           /\ player' = loop_exit(player, t)
    /\ UNCHANGED <<mapper, keyboard, call, gui, op, entry, valid, converter>>

NextPlayer ==
    \/ Play
    \/ Pause
    \/ SetSpeed
    \/ StopBegin
    \/ StopEnd
    \/ SeekBegin
    \/ SeekRelease
    \/ SeekEnd
    \/ ThreadFind
    \/ ThreadTest
    \/ ThreadBody
    \/ ThreadExit

SpecPlayer == InitPlayer /\ [][NextPlayer]_vars

(***************************************************************************)
(* One playback pass: play is called once, the pass may be paused,         *)
(* resumed, changed in speed and stopped, and no other pass is started.    *)
(* Humanize is on or off.                                                  *)
(***************************************************************************)
\* the files of one pass: those above and one where two note-ons of the
\* same pitch overlap
PassFiles ==
    MidiFiles
        \cup {<<Msg(0, "on", 60), Msg(1, "on", 60), Msg(1, "off", 60),
                Msg(1, "off", 60)>>}

InitPass ==
    /\ player \in {load_file(NewPlayer(FALSE, misclick_enabled, 50, 1), msgs) :
                       misclick_enabled \in BOOLEAN, msgs \in PassFiles}
    /\ mapper = IdleMapper
    /\ keyboard = <<>>
    /\ call = NoCall
    /\ gui = IdleGui
    /\ op = NoOp
    /\ entry = <<>>
    /\ valid = FALSE
    /\ converter = IdleConverter

\* play starts the pass, or resumes it when it is paused
PlayPass ==
    /\ CallerIdle
    /\ player.threads = <<>> \/ player.paused
    /\ player' = play(player)
    /\ UNCHANGED <<mapper, keyboard, call, gui, op, entry, valid, converter>>

NextPass ==
    \/ PlayPass
    \/ Pause
    \/ SetSpeed
    \/ StopBegin
    \/ StopEnd
    \/ ThreadTest
    \/ ThreadBody
    \/ ThreadExit

SpecPass == InitPass /\ [][NextPass]_vars

(***************************************************************************)
(* Properties of playback                                                  *)
(***************************************************************************)
\* how many dispatches of this kind, key and pass the log holds before i
CountBefore(i, act, key, pass) ==
    Cardinality({j \in 1..(i - 1) :
                     /\ player.log[j].act = act
                     /\ player.log[j].key = key
                     /\ player.log[j].pass = pass})

\* C12: every release the player dispatches for a key is preceded in the
\* same pass by a press of that key that has not been released yet; a
\* note-off whose note-on was not pressed in the pass dispatches no release.
C12_NoReleaseWithoutPress ==
    \A i \in 1..Len(player.log) :
        player.log[i].act = "release" =>
            CountBefore(i, "press", player.log[i].key, player.log[i].pass)
                > CountBefore(i, "release", player.log[i].key, player.log[i].pass)

\* the playback threads that are about to process an event
Dispatching == {t \in 1..Len(player.threads) : player.threads[t].pc = "event"}

\* C13: at most one playback loop thread is dispatching key events at a
\* time, under any interleaving of play, pause, stop and seek_to with the
\* playback thread.
C13_AtMostOneLoop == Cardinality(Dispatching) <= 1

\* the last dispatch of the key was a press
Held(key) ==
    \E i \in 1..Len(player.log) :
        /\ player.log[i].key = key
        /\ player.log[i].act = "press"
        /\ \A j \in (i + 1)..Len(player.log) : player.log[j].key # key

AllExited ==
    /\ player.threads # <<>>
    /\ \A t \in 1..Len(player.threads) : player.threads[t].pc = "done"

\* C14: once the caller is out of stop and seek_to and every playback
\* thread has exited, no key the player pressed is still held.
C14_NothingHeldAtTheEnd ==
    (CallerIdle /\ AllExited) =>
        \A i \in 1..Len(player.log) : ~Held(player.log[i].key)

\* the events one pass processed, in the order it processed them
InOrder(dispatched) ==
    \A i, j \in 1..Len(dispatched) :
        i < j =>
            LET first == player.events[dispatched[i]]
                second == player.events[dispatched[j]]
            IN  /\ dispatched[i] < dispatched[j]
                /\ first.time <= second.time
                /\ first.time = second.time => first.place < second.place

\* C15: within one pass events are processed in non-decreasing time,
\* simultaneous events in the order the file lists them, and no event is
\* processed twice or after a later one, whatever pauses, resumes and speed
\* changes happen meanwhile.
C15_DispatchedInOrder ==
    \A t \in 1..Len(player.threads) : InOrder(player.threads[t].dispatched)

\* a pass has processed the three events of a file whose first two are
\* simultaneous, the speed was changed and the player is paused
C15_Witness ==
    /\ \E t \in 1..Len(player.threads) : player.threads[t].dispatched = <<1, 2, 3>>
    /\ player.events[1].time = player.events[2].time
    /\ player.speed = 8
    /\ player.paused

\* how many events of this kind and note the list holds before place i
EventsBefore(i, type, note) ==
    Cardinality({j \in 1..(i - 1) :
                     player.events[j].type = type /\ player.events[j].note = note})

\* every note-off follows a note-on of its note that no earlier note-off
\* has ended, and every note-on is ended
Balanced ==
    /\ \A i \in 1..Len(player.events) :
           player.events[i].type = "off" =>
               EventsBefore(i, "on", player.events[i].note)
                   > EventsBefore(i, "off", player.events[i].note)
    /\ \A i \in 1..Len(player.events) :
           EventsBefore(Len(player.events) + 1, "on", player.events[i].note)
               = EventsBefore(Len(player.events) + 1, "off", player.events[i].note)

\* how many dispatches of this kind an event of original pitch note made
\* with the substituted pitch actual_note
Substituted(act, note, actual_note) ==
    Cardinality({i \in 1..Len(player.log) :
                     /\ player.log[i].act = act
                     /\ player.log[i].index > 0
                     /\ player.events[player.log[i].index].note = note
                     /\ player.log[i].note = actual_note})

\* the pass has processed every event of the file
PassComplete ==
    /\ Len(player.threads) = 1
    /\ player.threads[1].dispatched = [i \in 1..Len(player.events) |-> i]

\* C20: with humanize enabled, every note-on that was substituted and whose
\* substituted key was pressed has a note-off that releases that substituted
\* key: when a file in which every note-on has its note-off has been played
\* through, each substituted pitch was released by note-offs of its original
\* pitch as many times as it was pressed for it, overlapping note-ons of
\* one pitch included.
C20_NoteOffReleasesSubstitute ==
    (player.misclick_enabled /\ Balanced /\ PassComplete) =>
        \A i \in 1..Len(player.log) :
            LET actual_note == player.log[i].note
                note == IF player.log[i].index > 0
                        THEN player.events[player.log[i].index].note
                        ELSE actual_note
            IN  actual_note # note =>
                    Substituted("press", note, actual_note)
                        = Substituted("release", note, actual_note)

(***************************************************************************)
(* Repeated plays of one loaded file: play is called again once the pass   *)
(* before it has run to its end, with the file, the adjustment settings    *)
(* and the mapping left alone.  A pass may be paused, resumed and changed  *)
(* in speed; it is not stopped.                                            *)
(***************************************************************************)
\* how many times the file is played
MaxPasses == 2

\* the files above and one whose pitches reach the mapping only adjusted
ReplayFiles ==
    PassFiles \cup {<<Msg(0, "on", 54), Msg(0, "on", 66), Msg(1, "off", 54)>>}

InitReplay ==
    /\ player \in {load_file(NewPlayer(adjust_notes, misclick_enabled, 50, 1), msgs) :
                       adjust_notes \in BOOLEAN, misclick_enabled \in BOOLEAN,
                       msgs \in ReplayFiles}
    /\ mapper = IdleMapper
    /\ keyboard = <<>>
    /\ call = NoCall
    /\ gui = IdleGui
    /\ op = NoOp
    /\ entry = <<>>
    /\ valid = FALSE
    /\ converter = IdleConverter

\* every playback thread started so far has returned
NoThreadRuns ==
    \A t \in 1..Len(player.threads) : player.threads[t].pc = "done"

\* play resumes a paused pass, or starts the next pass after the last ended
PlayAgain ==
    /\ CallerIdle
    /\ \/ player.paused
       \/ NoThreadRuns /\ Len(player.threads) < MaxPasses
    /\ player' = play(player)
    /\ UNCHANGED <<mapper, keyboard, call, gui, op, entry, valid, converter>>

\* pause while a pass runs
PauseReplay ==
    /\ ~NoThreadRuns
    /\ player' = pause(player)
    /\ UNCHANGED <<mapper, keyboard, call, gui, op, entry, valid, converter>>

ReplayBody ==
    /\ \E t \in 1..Len(player.threads), roll \in Rolls, choice \in {-1, 1},
          offset \in (-player.misclick_range)..player.misclick_range :
           /\ player.threads[t].pc = "event"
           /\ player' = loop_body(player, t, roll, offset, choice)
    /\ UNCHANGED <<mapper, keyboard, call, gui, op, entry, valid, converter>>

ReplayExit ==
    /\ \E t \in 1..Len(player.threads) :
           /\ player.threads[t].pc = "release"
           /\ player' = loop_exit(player, t)
    /\ UNCHANGED <<mapper, keyboard, call, gui, op, entry, valid, converter>>

NextReplay ==
    \/ PlayAgain
    \/ PauseReplay
    \/ SetSpeed
    \/ ThreadTest
    \/ ReplayBody
    \/ ReplayExit

SpecReplay == InitReplay /\ [][NextReplay]_vars

\* the pass of thread t has processed every event of the file and returned
CompletePlay(t) ==
    /\ player.threads[t].pc = "done"
    /\ player.threads[t].dispatched = [i \in 1..Len(player.events) |-> i]

\* the (press or release, key) actions the pass of thread t dispatched
PassActions(t) ==
    LET own == SelectSeq(player.log, LAMBDA d : d.pass = t)
    IN  [i \in 1..Len(own) |-> <<own[i].act, own[i].key>>]

\* C21: with humanize disabled, two complete plays of the same loaded file
\* with the same adjustment settings and the same mapping dispatch exactly
\* the same sequence of (press or release, key) actions.
C21_SamePlaysSameDispatches ==
    ~player.misclick_enabled =>
        \A s, t \in 1..Len(player.threads) :
            (CompletePlay(s) /\ CompletePlay(t)) => PassActions(s) = PassActions(t)

\* two complete plays with humanize disabled, each of two presses, a
\* release by the note-off and a release at the end of the pass
C21_Witness ==
    /\ ~player.misclick_enabled
    /\ Len(player.threads) >= 2
    /\ CompletePlay(1)
    /\ CompletePlay(2)
    /\ PassActions(2) = << <<"press", <<"a">> >>, <<"press", <<"s">> >>,
                           <<"release", <<"a">> >>, <<"release", <<"s">> >> >>

(***************************************************************************)
(* Batch conversion, AudioToMidiConverter.convert_batch_parallel and       *)
(* _convert_single_threadsafe, src/src/converters/audio.py                 *)
(*                                                                         *)
(* The batch thread pre-loads the model, submits one task per file pair    *)
(* to a pool of max_workers threads and handles the futures in the order   *)
(* as_completed yields them; the pool threads take the tasks in the order  *)
(* of submission and finish them in any order.  Every callback the batch   *)
(* thread makes is appended to converter.calls as [fn, args, pair], pair   *)
(* being the place in file_pairs of the file the call is about (0 for      *)
(* on_all_complete).                                                       *)
(***************************************************************************)
\* an audio file: its path, whether it exists, its length in seconds and
\* whether the transcriber returns a result for it
AudioFile(dir, name, exists, duration, transcribes) ==
    [dir |-> dir, name |-> name, exists |-> exists, duration |-> duration,
     transcribes |-> transcribes]

\* Path(audio_path).name
PathName(audio_path) == audio_path.name

\* the result of a conversion that wrote no file
None == "None"

\* _convert_single_threadsafe: the output path, or None
convert_single_threadsafe(audio_path, output_path) ==
    IF ~audio_path.exists THEN None
    ELSE IF audio_path.duration < 1 THEN None
    ELSE IF audio_path.transcribes THEN output_path
    ELSE None

\* convert_one: (audio_path, result is not None)
convert_one(audio_path, output_path) ==
    <<audio_path, convert_single_threadsafe(audio_path, output_path) # None>>

\* one call of a callback
Callback(fn, args, pair) == [fn |-> fn, args |-> args, pair |-> pair]

\* a count that moves on only for a successful file
count_successes_only(b, success) ==
    IF success
    THEN [b EXCEPT !.completed = @ + 1, !.success_count = @ + 1]
    ELSE [b EXCEPT !.failed_count = @ + 1]

\* with lock: completed += 1, then success_count or failed_count += 1
count_result(b, success) ==
    IF success
    THEN [b EXCEPT !.completed = @ + 1, !.success_count = @ + 1]
    ELSE [b EXCEPT !.completed = @ + 1, !.failed_count = @ + 1]

\* the body of the as_completed loop for the future of pair i
handle_future(b, i) ==
    LET audio_path == b.results[i][1]
        success == b.results[i][2]
        filename == PathName(audio_path)
        b1 == count_result(b, success)
    IN  [b1 EXCEPT !.handled = @ \cup {i},
                   !.calls = @ \o <<Callback("on_file_complete",
                                             <<filename, success>>, i),
                                    Callback("on_progress",
                                             <<b1.completed, b1.total>>, i)>>]

\* _batch_convert up to the submission of every task
batch_begin(b) ==
    IF ~b.model_loaded /\ ~b.load_ok
    THEN [b EXCEPT !.pc = "done",
                   !.calls = Append(@, Callback("on_all_complete",
                                                <<0, Len(b.file_pairs)>>, 0))]
    ELSE [b EXCEPT !.model_loaded = TRUE,
                   !.pc = "pool",
                   !.total = Len(b.file_pairs),
                   !.queue = [i \in 1..Len(b.file_pairs) |-> i]]

\* the end of _batch_convert: the pool is shut down, the totals reported
batch_end(b) ==
    [b EXCEPT !.pc = "done",
              !.calls = Append(@, Callback("on_all_complete",
                                           <<b.success_count, b.failed_count>>, 0))]

\* a pool thread takes the oldest waiting task
worker_take(b) ==
    [b EXCEPT !.queue = Tail(@), !.running = @ \cup {Head(b.queue)}]

\* a pool thread returns from convert_one
worker_finish(b, i) ==
    [b EXCEPT !.running = @ \ {i},
              !.results = DictSet(@, i, convert_one(b.file_pairs[i][1],
                                                    b.file_pairs[i][2]))]

\* the files a batch is made of: two share a name, one of them is missing;
\* one is too short, one is not transcribed
AudioFiles ==
    {AudioFile("in", "a.wav", TRUE, 3, TRUE),
     AudioFile("old", "a.wav", FALSE, 0, FALSE),
     AudioFile("in", "b.wav", TRUE, 0, TRUE),
     AudioFile("in", "c.wav", TRUE, 3, FALSE)}

MaxFiles == 3

WorkerInputs == {1, 2}

\* the lists of at most MaxFiles (audio_path, output_midi_path) pairs
RECURSIVE FilePairs(_)
FilePairs(n) ==
    IF n = 0 THEN {<<>>}
    ELSE FilePairs(n - 1)
            \cup {Append(pairs, <<audio_path, "out.mid">>) :
                      pairs \in {q \in FilePairs(n - 1) : Len(q) = n - 1},
                      audio_path \in AudioFiles}

\* convert_batch_parallel has been called and its thread started
NewBatch(file_pairs, max_workers, model_loaded, load_ok) ==
    [mode |-> "batch",
     file_pairs |-> file_pairs,
     max_workers |-> max_workers,
     model_loaded |-> model_loaded,
     load_ok |-> load_ok,
     pc |-> "start",
     total |-> 0,
     completed |-> 0,
     success_count |-> 0,
     failed_count |-> 0,
     queue |-> <<>>,
     running |-> {},
     results |-> EmptyDict,
     handled |-> {},
     calls |-> <<>>]

InitBatch ==
    /\ converter \in {NewBatch(file_pairs, max_workers, model_loaded, load_ok) :
                          file_pairs \in FilePairs(MaxFiles),
                          max_workers \in WorkerInputs,
                          model_loaded \in BOOLEAN, load_ok \in BOOLEAN}
    /\ mapper = IdleMapper
    /\ keyboard = <<>>
    /\ call = NoCall
    /\ gui = IdleGui
    /\ op = NoOp
    /\ entry = <<>>
    /\ valid = FALSE
    /\ player = IdlePlayer

BatchBegin ==
    /\ converter.pc = "start"
    /\ converter' = batch_begin(converter)
    /\ UNCHANGED <<mapper, keyboard, call, gui, op, entry, valid, player>>

WorkerTake ==
    /\ converter.pc = "pool"
    /\ converter.queue # <<>>
    /\ Cardinality(converter.running) < converter.max_workers
    /\ converter' = worker_take(converter)
    /\ UNCHANGED <<mapper, keyboard, call, gui, op, entry, valid, player>>

WorkerFinish ==
    /\ \E i \in converter.running : converter' = worker_finish(converter, i)
    /\ UNCHANGED <<mapper, keyboard, call, gui, op, entry, valid, player>>

\* as_completed yields a finished future that was not yielded before
HandleFuture ==
    /\ converter.pc = "pool"
    /\ \E i \in DOMAIN converter.results \ converter.handled :
           converter' = handle_future(converter, i)
    /\ UNCHANGED <<mapper, keyboard, call, gui, op, entry, valid, player>>

\* as_completed is exhausted
BatchEnd ==
    /\ converter.pc = "pool"
    /\ converter.handled = 1..Len(converter.file_pairs)
    /\ converter' = batch_end(converter)
    /\ UNCHANGED <<mapper, keyboard, call, gui, op, entry, valid, player>>

NextBatch ==
    \/ BatchBegin
    \/ WorkerTake
    \/ WorkerFinish
    \/ HandleFuture
    \/ BatchEnd

SpecBatch == InitBatch /\ [][NextBatch]_vars

\* the calls of one callback, in the order they were made
CallsOf(fn) == SelectSeq(converter.calls, LAMBDA c : c.fn = fn)

\* how many on_file_complete calls reported this success flag
Reported(success) ==
    Cardinality({k \in 1..Len(CallsOf("on_file_complete")) :
                     CallsOf("on_file_complete")[k].args[2] = success})

\* C22: for a batch of N file pairs whose model pre-load succeeds, under any
\* completion order of the workers: on_progress receives (1,N), (2,N), ...
\* in that order; when the batch is over on_file_complete has been invoked
\* exactly N times, once per file, with the success flag of that file's
\* conversion, on_progress has reached (N,N), and on_all_complete has been
\* invoked exactly once, after all per-file callbacks, with (successes,
\* failures) equal to the callback counts and summing to N.
C22_BatchCallbacks ==
    LET N == Len(converter.file_pairs)
        files == CallsOf("on_file_complete")
        progress == CallsOf("on_progress")
        all == CallsOf("on_all_complete")
    IN  converter.pc # "start" /\ converter.model_loaded =>
            /\ \A k \in 1..Len(progress) : progress[k].args = <<k, N>>
            /\ \A i \in 1..N :
                   Cardinality({k \in 1..Len(files) : files[k].pair = i}) <= 1
            /\ \A k \in 1..Len(files) :
                   LET audio_path == converter.file_pairs[files[k].pair][1]
                   IN  files[k].args =
                           <<PathName(audio_path),
                             convert_single_threadsafe(audio_path, "out.mid") # None>>
            /\ converter.pc # "done" => all = <<>>
            /\ converter.pc = "done" =>
                   /\ Len(files) = N
                   /\ Len(progress) = N
                   /\ Len(all) = 1
                   /\ converter.calls[Len(converter.calls)].fn = "on_all_complete"
                   /\ all[1].args = <<Reported(TRUE), Reported(FALSE)>>
                   /\ Reported(TRUE) + Reported(FALSE) = N

\* a batch of three files is over: two workers, the second file was
\* handled before the first, two conversions failed and one succeeded
C22_Witness ==
    /\ converter.pc = "done"
    /\ converter.max_workers = 2
    /\ Len(converter.file_pairs) = 3
    /\ Len(CallsOf("on_file_complete")) = 3
    /\ CallsOf("on_file_complete")[1].pair = 2
    /\ Len(CallsOf("on_all_complete")) = 1
    /\ CallsOf("on_all_complete")[1].args = <<1, 2>>

(***************************************************************************)
(* YouTubeConverter.convert, src/src/converters/youtube.py                 *)
(*                                                                         *)
(* One call of convert, step by step, with cancel() called from another    *)
(* thread at any time.  What lies outside the program is an input of the   *)
(* call: whether yt-dlp is installed, whether the URL holds a video id,    *)
(* what extract_info returns or whether it raises, whether the download    *)
(* raises, whether the progress hook runs, whether the MP3 file is there   *)
(* afterwards.  converter.steps lists the calls made to yt-dlp.            *)
(***************************************************************************)
\* the longest video that is downloaded, in seconds
MaxDuration == 1800

\* the duration of info when it holds none: duration // 60 raises on it
NoDuration == -1

\* a limit of one hour
TooLongOverAnHour(duration) == duration > 3600

\* if duration > 1800
TooLong(duration) == duration > MaxDuration

\* the durations extract_info reports; info.get('duration', 0) is 0 when
\* the key is missing and None when it is present without a value
Durations == {NoDuration, 0, 1799, 1800, 1801, 3600, 7200}

\* what extract_info does: it raises, or it returns info with a duration
Extractions == {[raises |-> TRUE, duration |-> 0]}
                   \cup {[raises |-> FALSE, duration |-> d] : d \in Durations}

\* convert has been called; an earlier call was cancelled, which left the
\* flag set
NewDownload(available, video_id, extraction, download_raises, file_exists) ==
    [mode |-> "youtube",
     available |-> available,
     video_id |-> video_id,
     extraction |-> extraction,
     download_raises |-> download_raises,
     file_exists |-> file_exists,
     cancel_flag |-> TRUE,
     pc |-> "start",
     duration |-> NoDuration,
     steps |-> <<>>,
     result |-> None]

\* return None, also from the except clause
ReturnNone(c) == [c EXCEPT !.pc = "done", !.result = None]

\* convert up to the call of extract_info
convert_begin(c) ==
    LET c1 == [c EXCEPT !.cancel_flag = FALSE]
    IN  IF ~c.available THEN ReturnNone(c1)
        ELSE IF c.video_id = None THEN ReturnNone(c1)
        ELSE [c1 EXCEPT !.pc = "extract"]

\* info = ydl.extract_info(full_url, download=False)
convert_extract(c) ==
    LET c1 == [c EXCEPT !.steps = Append(@, "extract_info")]
    IN  IF c.extraction.raises THEN ReturnNone(c1)
        ELSE [c1 EXCEPT !.pc = "check", !.duration = c.extraction.duration]

\* the cancel test, the log of the duration and the length test
convert_check(c) ==
    IF c.cancel_flag THEN ReturnNone(c)
    ELSE IF c.duration = NoDuration THEN ReturnNone(c)
    ELSE IF TooLong(c.duration) THEN ReturnNone(c)
    ELSE [c EXCEPT !.pc = "download"]

\* ydl.download([full_url]); the progress hook raises when cancelled
convert_download(c, hook_runs) ==
    LET c1 == [c EXCEPT !.steps = Append(@, "download")]
    IN  IF c.download_raises \/ (hook_runs /\ c.cancel_flag) THEN ReturnNone(c1)
        ELSE [c1 EXCEPT !.pc = "finalize"]

\* the search of the output file
convert_end(c) ==
    IF c.file_exists THEN [c EXCEPT !.pc = "done", !.result = "mp3"]
    ELSE ReturnNone(c)

cancel(c) == [c EXCEPT !.cancel_flag = TRUE]

InitYouTube ==
    /\ converter \in {NewDownload(available, video_id, extraction, download_raises,
                                  file_exists) :
                          available \in BOOLEAN, video_id \in {None, "id"},
                          extraction \in Extractions,
                          download_raises \in BOOLEAN, file_exists \in BOOLEAN}
    /\ mapper = IdleMapper
    /\ keyboard = <<>>
    /\ call = NoCall
    /\ gui = IdleGui
    /\ op = NoOp
    /\ entry = <<>>
    /\ valid = FALSE
    /\ player = IdlePlayer

ConvertBegin ==
    /\ converter.pc = "start"
    /\ converter' = convert_begin(converter)
    /\ UNCHANGED <<mapper, keyboard, call, gui, op, entry, valid, player>>

ConvertExtract ==
    /\ converter.pc = "extract"
    /\ converter' = convert_extract(converter)
    /\ UNCHANGED <<mapper, keyboard, call, gui, op, entry, valid, player>>

ConvertCheck ==
    /\ converter.pc = "check"
    /\ converter' = convert_check(converter)
    /\ UNCHANGED <<mapper, keyboard, call, gui, op, entry, valid, player>>

ConvertDownload ==
    /\ converter.pc = "download"
    /\ \E hook_runs \in BOOLEAN : converter' = convert_download(converter, hook_runs)
    /\ UNCHANGED <<mapper, keyboard, call, gui, op, entry, valid, player>>

ConvertEnd ==
    /\ converter.pc = "finalize"
    /\ converter' = convert_end(converter)
    /\ UNCHANGED <<mapper, keyboard, call, gui, op, entry, valid, player>>

\* cancel() from the GUI thread while convert runs
Cancel ==
    /\ converter.pc \notin {"start", "done"}
    /\ converter' = cancel(converter)
    /\ UNCHANGED <<mapper, keyboard, call, gui, op, entry, valid, player>>

NextYouTube ==
    \/ ConvertBegin
    \/ ConvertExtract
    \/ ConvertCheck
    \/ ConvertDownload
    \/ ConvertEnd
    \/ Cancel

SpecYouTube == InitYouTube /\ [][NextYouTube]_vars

\* the call was made to yt-dlp
Invoked(step) == \E k \in 1..Len(converter.steps) : converter.steps[k] = step

\* extract_info has returned metadata with a duration in seconds
DurationReported == converter.duration # NoDuration

\* C23: whenever the extracted metadata reports a duration greater than
\* 1800 seconds, convert returns no result and the download step is never
\* invoked; the download step is invoked only after metadata extraction
\* reported a duration of at most 1800 seconds.
C23_NoDownloadOfLongVideos ==
    /\ (DurationReported /\ converter.duration > 1800) =>
           /\ ~Invoked("download")
           /\ converter.result = None
           /\ converter.pc \in {"check", "done"}
    /\ Invoked("download") =>
           /\ DurationReported
           /\ converter.duration <= 1800
           /\ converter.steps = <<"extract_info", "download">>

\* convert has returned without a result for a video of 1801 seconds, and
\* extract_info is the only call that was made
C23_Witness ==
    /\ converter.pc = "done"
    /\ converter.duration = 1801
    /\ converter.steps = <<"extract_info">>
    /\ converter.result = None

(***************************************************************************)
(* Live mapping in the graphical shell: MIDIMapperGUI.on_midi_note,        *)
(* on_midi_note_off and toggle_mapping, with the handlers that edit the    *)
(* mapping, src/src/gui.py                                                 *)
(*                                                                         *)
(* Every handler runs on the GUI thread, the listener thread handing the   *)
(* note events over with root.after, so a handler is one step.  gui has    *)
(* the fields of the profile store and, with them, mapping_enabled and     *)
(* active_notes.  The key presses and releases go to keyboard, each with   *)
(* the note it was made for.  The parts of on_midi_note that fill the list *)
(* of recent notes and the note entry field are left out.                  *)
(***************************************************************************)
\* self.active_notes = set(); self.mapping_enabled = False
LiveFields == [mapping_enabled |-> FALSE, active_notes |-> {}]

\* a step of a live handler: the GUI and the keyboard after it
LiveStep(g, kb) == [gui |-> g, keyboard |-> kb]

on_midi_note(g, kb, note) ==
    IF g.mapping_enabled /\ note \in DOMAIN g.midi_map /\ note \notin g.active_notes
    THEN LiveStep([g EXCEPT !.active_notes = @ \cup {note}],
                  press_key(kb, g.midi_map[note], note))
    ELSE LiveStep(g, kb)

on_midi_note_off(g, kb, note) ==
    IF g.mapping_enabled /\ note \in DOMAIN g.midi_map /\ note \in g.active_notes
    THEN LiveStep([g EXCEPT !.active_notes = @ \ {note}],
                  release_key(kb, g.midi_map[note], note))
    ELSE LiveStep(g, kb)

\* for note in list(self.active_notes): if note in self.midi_map: release
RECURSIVE ReleaseActive(_, _, _)
ReleaseActive(notes, midi_map, kb) ==
    IF notes = {} THEN kb
    ELSE LET note == Min(notes)
         IN  ReleaseActive(notes \ {note}, midi_map,
                           IF note \in DOMAIN midi_map
                           THEN release_key(kb, midi_map[note], note)
                           ELSE kb)

\* toggle_mapping after the check box took the value enable_var
toggle_mapping(g, kb, enable_var) ==
    IF ~enable_var
    THEN LiveStep([g EXCEPT !.mapping_enabled = FALSE, !.active_notes = {}],
                  ReleaseActive(g.active_notes, g.midi_map, kb))
    ELSE LiveStep([g EXCEPT !.mapping_enabled = TRUE], kb)

\* the notes that come in and the keys that are assigned
LiveNotes == {60, 62}

LiveKeys == {<<"a">>, <<"b">>}

\* the application has been started without a configuration file
InitLive ==
    /\ LET g1 == load_all_profiles(GuiInit(AbsentFile, NotSaved))
           g2 == load_profile_without_save(g1, g1.current_profile)
       IN  gui = Begin([g2 EXCEPT !.running = TRUE]) @@ LiveFields
    /\ keyboard = <<>>
    /\ op = NoOp
    /\ mapper = IdleMapper
    /\ call = NoCall
    /\ entry = <<>>
    /\ valid = FALSE
    /\ player = IdlePlayer
    /\ converter = IdleConverter

\* a handler of the live mapping has run
Live(name, step) ==
    /\ Len(step.keyboard) <= MaxLog
    /\ gui' = step.gui
    /\ keyboard' = step.keyboard
    /\ op' = [NoOp EXCEPT !.name = name]
    /\ UNCHANGED <<mapper, call, entry, valid, player, converter>>

LiveNoteOn ==
    \E note \in LiveNotes : Live("on_midi_note", on_midi_note(Begin(gui), keyboard, note))

LiveNoteOff ==
    \E note \in LiveNotes :
        Live("on_midi_note_off", on_midi_note_off(Begin(gui), keyboard, note))

\* the check box is clicked
ToggleMapping ==
    Live("toggle_mapping", toggle_mapping(Begin(gui), keyboard, ~gui.mapping_enabled))

LiveAssignKey ==
    \E midi_note \in LiveNotes, key_var \in LiveKeys :
        Live("assign_key", LiveStep(assign_key(Begin(gui), midi_note, key_var), keyboard))

LiveRemoveMapping ==
    \E midi_note \in DOMAIN gui.midi_map :
        Live("remove_mapping", LiveStep(remove_mapping(Begin(gui), midi_note), keyboard))

NextLive ==
    \/ LiveNoteOn
    \/ LiveNoteOff
    \/ ToggleMapping
    \/ LiveAssignKey
    \/ LiveRemoveMapping

SpecLive == InitLive /\ [][NextLive]_vars

\* the last thing issued for the key was a press
HeldDown(kb, key) ==
    \E i \in 1..Len(kb) :
        /\ kb[i].key = key
        /\ kb[i].act = "press"
        /\ \A j \in (i + 1)..Len(kb) : kb[j].key # key

\* what the handler issued
Issued == SubSeq(keyboard', Len(keyboard) + 1, Len(keyboard'))

\* C24: when live mapping is switched from enabled to disabled while notes
\* are held, toggle_mapping issues a release for the mapped key of every note
\* in the active-note set and empties that set, so that no key pressed by
\* live mapping remains held; while mapping stays disabled no press or
\* release is issued for incoming note events.
C24_DisableReleasesHeldKeys ==
    [][/\ (op'.name = "toggle_mapping" /\ gui.mapping_enabled) =>
              /\ \A note \in gui.active_notes \cap DOMAIN gui.midi_map :
                     \E i \in 1..Len(Issued) :
                         Issued[i] = [act |-> "release", key |-> gui.midi_map[note],
                                      note |-> note]
              /\ gui'.active_notes = {}
              /\ \A i \in 1..Len(keyboard') : ~HeldDown(keyboard', keyboard'[i].key)
       /\ (op'.name \in {"on_midi_note", "on_midi_note_off"} /\ ~gui.mapping_enabled) =>
              keyboard' = keyboard]_vars

(***************************************************************************)
(* Binarization of the regression output,                                  *)
(* RegressionPostProcessor.get_binarized_output_from_regression and        *)
(* is_monotonic_neighbour, src/utils/audio.py                              *)
(*                                                                         *)
(* reg_output is a list of columns, one per pitch class, each a list of    *)
(* frame values; the values and the threshold are counted in steps of the  *)
(* same size.  Frames are numbered from 0 as in the code.  shift_output,   *)
(* which is computed from the flagged frames and read by nothing in this   *)
(* function, is left out.                                                  *)
(***************************************************************************)
\* x[n], frames counted from 0
At(x, n) == x[n + 1]

\* a test that looks at the two adjacent frames only
is_peak_of_three(x, n, neighbour) ==
    ~(At(x, n) < At(x, n - 1)) /\ ~(At(x, n) < At(x, n + 1))

is_monotonic_neighbour(x, n, neighbour) ==
    \A i \in 0..(neighbour - 1) :
        /\ ~(At(x, n - i) < At(x, n - i - 1))
        /\ ~(At(x, n + i) < At(x, n + i + 1))

\* binary_output: per class, per frame, 1 where the frame is flagged
get_binarized_output_from_regression(reg_output, threshold, neighbour) ==
    [k \in 1..Len(reg_output) |->
        LET x == reg_output[k]
            frames_num == Len(x)
        IN  [n \in 0..(frames_num - 1) |->
                IF /\ n \in neighbour..(frames_num - neighbour - 1)
                   /\ At(x, n) > threshold
                   /\ is_monotonic_neighbour(x, n, neighbour)
                THEN 1 ELSE 0]]

MaxFrames == 6

\* the curves of n frames over the given values
RECURSIVE Curves(_, _)
Curves(n, values) ==
    IF n = 0 THEN {<<>>}
    ELSE {Append(x, v) : x \in Curves(n - 1, values), v \in values}

\* the runs: one class of up to MaxFrames frames with the neighbour of the
\* note onsets and offsets (2) or a smaller one, one class of 9 frames
\* with the neighbour of the pedal offsets (4), two classes of 5 frames
BinarizeInputs ==
    {[reg_output |-> <<x>>, threshold |-> threshold, neighbour |-> neighbour] :
         x \in UNION {Curves(n, {0, 1, 2}) : n \in 0..MaxFrames},
         threshold \in {0, 1}, neighbour \in {1, 2}}
    \cup {[reg_output |-> <<x>>, threshold |-> threshold, neighbour |-> 4] :
              x \in Curves(9, {1, 2}), threshold \in {0, 1}}
    \cup {[reg_output |-> <<x, y>>, threshold |-> 1, neighbour |-> 2] :
              x \in Curves(5, {1, 2}), y \in Curves(5, {1, 2})}

InitBinarize ==
    /\ converter \in {[mode |-> "binarize", pc |-> "start",
                       reg_output |-> in.reg_output, threshold |-> in.threshold,
                       neighbour |-> in.neighbour, binary_output |-> <<>>] :
                          in \in BinarizeInputs}
    /\ mapper = IdleMapper
    /\ keyboard = <<>>
    /\ call = NoCall
    /\ gui = IdleGui
    /\ op = NoOp
    /\ entry = <<>>
    /\ valid = FALSE
    /\ player = IdlePlayer

Binarize ==
    /\ converter.pc = "start"
    /\ converter' =
           [converter EXCEPT
               !.pc = "done",
               !.binary_output =
                   get_binarized_output_from_regression(converter.reg_output,
                                                        converter.threshold,
                                                        converter.neighbour)]
    /\ UNCHANGED <<mapper, keyboard, call, gui, op, entry, valid, player>>

NextBinarize == Binarize

SpecBinarize == InitBinarize /\ [][NextBinarize]_vars

\* the values do not fall from frame from to frame to
NonDecreasing(x, from, to) == \A j \in from..(to - 1) : At(x, j) <= At(x, j + 1)

\* the values do not rise from frame from to frame to
NonIncreasing(x, from, to) == \A j \in from..(to - 1) : At(x, j) >= At(x, j + 1)

\* C25: for every pitch class and every frame n with neighbour <= n <
\* frames - neighbour, the frame is flagged exactly when x[n] > threshold and
\* the values are non-decreasing over the neighbour frames leading up to n
\* and non-increasing over the neighbour frames after n; a peak above the
\* threshold with a non-monotonic neighbour is not flagged, and no frame
\* inside the border of neighbour frames at either end is ever flagged.
C25_FlaggedExactlyAtMonotonicPeaks ==
    converter.pc = "done" =>
        \A k \in 1..Len(converter.reg_output) :
            LET x == converter.reg_output[k]
                frames == Len(x)
                neighbour == converter.neighbour
                flagged(n) == converter.binary_output[k][n] = 1
            IN  \A n \in 0..(frames - 1) :
                    IF neighbour <= n /\ n < frames - neighbour
                    THEN flagged(n) <=>
                             /\ At(x, n) > converter.threshold
                             /\ NonDecreasing(x, n - neighbour, n)
                             /\ NonIncreasing(x, n, n + neighbour)
                    ELSE ~flagged(n)

\* two classes were binarized with neighbour 2: the peak of the first is
\* flagged, the same peak in the second, whose curve falls before it rises,
\* is not
C25_Witness ==
    /\ converter.pc = "done"
    /\ converter.reg_output = << <<1, 1, 2, 1, 1>>, <<2, 1, 2, 1, 1>> >>
    /\ converter.threshold = 1
    /\ converter.neighbour = 2
    /\ converter.binary_output[1][2] = 1
    /\ \A n \in 0..4 : converter.binary_output[2][n] = 0

(***************************************************************************)
(* MIDI serialization, write_events_to_midi, src/utils/audio.py            *)
(*                                                                         *)
(* Times are counted in frames of 1/frames_per_second of a second, so      *)
(* that (time - start_time) * ticks_per_second is the exact quotient       *)
(* frames * 768 / 100 and int() is its truncation towards zero.  The       *)
(* start times and the frame times used are those for which the floating   *)
(* point product truncates as the exact one does.  A message of the track  *)
(* carries, besides what the file holds, the event it was made for, which  *)
(* end of the event it is, and the time of that end.                       *)
(***************************************************************************)
ticks_per_beat == 384

beats_per_second == 2

ticks_per_second == ticks_per_beat * beats_per_second

\* the frames of one second
FramesPerSecond == 100

\* round(): to the nearest whole number, a half to the even one
round(numerator, denominator) ==
    LET q == numerator \div denominator
        r == numerator % denominator
    IN  IF 2 * r < denominator THEN q
        ELSE IF 2 * r > denominator THEN q + 1
        ELSE IF q % 2 = 0 THEN q ELSE q + 1

\* a tick count that is rounded to the nearest tick
TicksRounded(time, start_time) ==
    IF time >= start_time
    THEN round((time - start_time) * ticks_per_second, FramesPerSecond)
    ELSE -round((start_time - time) * ticks_per_second, FramesPerSecond)

\* int((message['time'] - start_time) * ticks_per_second)
Ticks(time, start_time) ==
    IF time >= start_time
    THEN ((time - start_time) * ticks_per_second) \div FramesPerSecond
    ELSE -(((start_time - time) * ticks_per_second) \div FramesPerSecond)

NoteEvent(onset_time, offset_time, midi_note, velocity) ==
    [onset_time |-> onset_time, offset_time |-> offset_time,
     midi_note |-> midi_note, velocity |-> velocity]

\* an entry of message_roll
RollEntry(time, type, note, value, event, edge) ==
    [time |-> time, type |-> type, note |-> note, value |-> value,
     event |-> event, edge |-> edge]

\* message_roll before it is sorted: the two ends of every note event,
\* then the two ends of every pedal event
RECURSIVE message_roll(_, _, _)
message_roll(note_events, pedal_events, event) ==
    IF note_events # <<>>
    THEN LET e == Head(note_events)
         IN  <<RollEntry(e.onset_time, "note_on", e.midi_note, e.velocity,
                         event, "onset"),
               RollEntry(e.offset_time, "note_on", e.midi_note, 0, event, "offset")>>
                 \o message_roll(Tail(note_events), pedal_events, event + 1)
    ELSE IF pedal_events # <<>>
    THEN LET e == Head(pedal_events)
         IN  <<RollEntry(e.onset_time, "control_change", 64, 127, event, "onset"),
               RollEntry(e.offset_time, "control_change", 64, 0, event, "offset")>>
                 \o message_roll(<<>>, Tail(pedal_events), event + 1)
    ELSE <<>>

\* the messages of track 1 before end_of_track, for the sorted roll
RECURSIVE track1(_, _, _)
track1(roll, start_time, previous_ticks) ==
    IF roll = <<>> THEN <<>>
    ELSE LET message == Head(roll)
             this_ticks == Ticks(message.time, start_time)
         IN  IF this_ticks >= 0
             THEN <<[type |-> message.type, note |-> message.note,
                     value |-> message.value, time |-> this_ticks - previous_ticks,
                     event |-> message.event, edge |-> message.edge,
                     at |-> message.time]>>
                      \o track1(Tail(roll), start_time, this_ticks)
             ELSE track1(Tail(roll), start_time, previous_ticks)

write_events_to_midi(start_time, note_events, pedal_events) ==
    track1(Sorted(message_roll(note_events, pedal_events, 1)), start_time, 0)

MaxNoteEvents == 2

\* the frame times of note and pedal events
EventTimes == {0, 1, 25, 26}

\* the start times: that of the one caller, and a quarter of a second
StartTimes == {0, 25}

RECURSIVE NoteEvents(_)
NoteEvents(n) ==
    IF n = 0 THEN {<<>>}
    ELSE NoteEvents(n - 1)
            \cup {Append(events, NoteEvent(onset_time, offset_time, midi_note, 100)) :
                      events \in {q \in NoteEvents(n - 1) : Len(q) = n - 1},
                      onset_time \in EventTimes, offset_time \in EventTimes,
                      midi_note \in {60, 62}}

\* no pedal, or one pedal event
PedalEvents ==
    {<<>>, <<[onset_time |-> 1, offset_time |-> 25]>>,
     <<[onset_time |-> 0, offset_time |-> 26]>>}

InitWrite ==
    /\ converter \in {[mode |-> "write", pc |-> "start", start_time |-> start_time,
                       note_events |-> note_events, pedal_events |-> pedal_events,
                       track |-> <<>>] :
                          start_time \in StartTimes,
                          note_events \in NoteEvents(MaxNoteEvents),
                          pedal_events \in PedalEvents}
    /\ mapper = IdleMapper
    /\ keyboard = <<>>
    /\ call = NoCall
    /\ gui = IdleGui
    /\ op = NoOp
    /\ entry = <<>>
    /\ valid = FALSE
    /\ player = IdlePlayer

WriteEvents ==
    /\ converter.pc = "start"
    /\ converter' =
           [converter EXCEPT
               !.pc = "done",
               !.track = write_events_to_midi(converter.start_time,
                                              converter.note_events,
                                              converter.pedal_events)]
    /\ UNCHANGED <<mapper, keyboard, call, gui, op, entry, valid, player>>

NextWrite == WriteEvents

SpecWrite == InitWrite /\ [][NextWrite]_vars

\* the delta ticks of the track up to and with message p
RECURSIVE Accumulated(_)
Accumulated(p) ==
    IF p = 0 THEN 0 ELSE converter.track[p].time + Accumulated(p - 1)

\* the note events the claim is about
InTime(e) ==
    converter.start_time <= e.onset_time /\ e.onset_time <= e.offset_time

\* note_on(note, velocity) and later note_on(note, 0) are in the track for
\* note event i, and exact(p) holds of each
Emitted(i, exact(_)) ==
    LET e == converter.note_events[i]
        track == converter.track
    IN  \E p, q \in 1..Len(track) :
            /\ p < q
            /\ track[p].event = i /\ track[p].edge = "onset"
            /\ track[p].type = "note_on"
            /\ track[p].note = e.midi_note /\ track[p].value = e.velocity
            /\ track[q].event = i /\ track[q].edge = "offset"
            /\ track[q].type = "note_on"
            /\ track[q].note = e.midi_note /\ track[q].value = 0
            /\ exact(p)
            /\ exact(q)

\* the accumulated ticks are the rounded product
Rounded(p) ==
    Accumulated(p) = round((converter.track[p].at - converter.start_time)
                               * 384 * 2, FramesPerSecond)

\* the accumulated ticks are the whole ticks of the product
Truncated(p) ==
    LET product == (converter.track[p].at - converter.start_time) * 384 * 2
    IN  /\ Accumulated(p) * FramesPerSecond <= product
        /\ product < (Accumulated(p) + 1) * FramesPerSecond

NonNegativeDeltas ==
    \A p \in 1..Len(converter.track) : converter.track[p].time >= 0

\* C26 as stated: for every note event with start_time <= onset <= offset,
\* note_on(note, velocity) and later note_on(note, 0) are emitted, and the
\* accumulated delta ticks up to each emitted message equal
\* round((time - start_time) * 384 * 2); every emitted delta is non-negative.
C26_TicksRounded ==
    converter.pc = "done" =>
        /\ \A i \in 1..Len(converter.note_events) :
               InTime(converter.note_events[i]) => Emitted(i, Rounded)
        /\ NonNegativeDeltas

\* C26 amended: for every note event with start_time <= onset <= offset,
\* note_on(note, velocity) and later note_on(note, 0) are emitted, and the
\* accumulated delta ticks up to each emitted message equal
\* (time - start_time) * 384 * 2 cut down to a whole number of ticks, not
\* rounded; every emitted delta is non-negative.
C26_TicksTruncated ==
    converter.pc = "done" =>
        /\ \A i \in 1..Len(converter.note_events) :
               InTime(converter.note_events[i]) => Emitted(i, Truncated)
        /\ NonNegativeDeltas

\* a note from frame 1 to frame 26 was written with start time 0: 7.68 and
\* 199.68 ticks become 7 and 199, the second message comes 192 ticks after
\* the first
C26_Witness ==
    /\ converter.pc = "done"
    /\ converter.start_time = 0
    /\ converter.pedal_events = <<>>
    /\ converter.note_events = <<NoteEvent(1, 26, 60, 100)>>
    /\ Len(converter.track) = 2
    /\ converter.track[1].time = 7
    /\ converter.track[2].time = 192
    /\ converter.track[2].value = 0

(***************************************************************************)
(* Further properties of playback                                          *)
(***************************************************************************)
\* the flags are in one of the states stopped, playing and paused
FlagState(p) ==
    IF ~p.playing /\ ~p.paused THEN "stopped"
    ELSE IF p.playing /\ ~p.paused THEN "playing"
    ELSE IF p.playing /\ p.paused THEN "paused"
    ELSE "none"

\* C27: under any sequence of play, pause, stop and seek_to calls on a
\* loaded player the (playing, paused) flags only take the three states
\* stopped (false, false), playing (true, false) and paused (true, true):
\* no state with paused true and playing false is reached, and the paused
\* state is entered only from playing.
C27_FlagStateMachine ==
    /\ [](FlagState(player) # "none")
    /\ [][(FlagState(player') = "paused" /\ FlagState(player) # "paused")
              => FlagState(player) = "playing"]_vars

(***************************************************************************)
(* Seeking: play is called when no playback thread runs or to resume,      *)
(* the pass may be paused, and seek_to is called at any time the caller    *)
(* is idle; stop is not called.  Humanize is off.                          *)
(***************************************************************************)
InitSeek == InitPlayer

\* play starts a pass when none runs, or resumes the paused one
PlaySeek ==
    /\ CallerIdle
    /\ NoThreadRuns \/ player.paused
    /\ Bounded(play(player))
    /\ player' = play(player)
    /\ UNCHANGED <<mapper, keyboard, call, gui, op, entry, valid, converter>>

NextSeek ==
    \/ PlaySeek
    \/ Pause
    \/ SeekBegin
    \/ SeekRelease
    \/ SeekEnd
    \/ ThreadFind
    \/ ThreadTest
    \/ ThreadBody
    \/ ThreadExit

SpecSeek == InitSeek /\ [][NextSeek]_vars

\* the places of the events at or after the position, in the order of the list
ExpectedFrom(position) ==
    SelectSeq([i \in 1..Len(player.events) |-> i],
              LAMBDA i : player.events[i].time >= position)

IsPrefix(s, t) == Len(s) <= Len(t) /\ s = SubSeq(t, 1, Len(s))

\* the pass of thread t has gone through the list to its end
RanToEnd(t) ==
    /\ player.threads[t].pc = "done"
    /\ \/ player.threads[t].event_index = Len(player.events) + 1
       \/ ExpectedFrom(player.threads[t].start_position) = <<>>

\* a pass dispatches the events at or after its start position, in order,
\* and no other
FromStartPosition ==
    \A t \in 1..Len(player.threads) :
        LET expected == ExpectedFrom(player.threads[t].start_position)
        IN  /\ IsPrefix(player.threads[t].dispatched, expected)
            /\ RanToEnd(t) => player.threads[t].dispatched = expected

\* seek_to is entered: the target is the requested time brought into
\* [0, total_duration]
SeekCalled ==
    /\ player.ui.pc = "idle"
    /\ player'.ui.pc = "seek_release"

SeekTargetClamped ==
    \E target_time \in SeekInputs :
        player'.ui.target = IF target_time < 0 THEN 0
                            ELSE IF target_time > player.total_duration
                                 THEN player.total_duration
                                 ELSE target_time

\* seek_to returns
SeekReturns ==
    /\ player.ui.pc = "seek_join"
    /\ player'.ui.pc = "idle"

\* a new playback thread is started at the target
Restarted ==
    /\ Len(player'.threads) = Len(player.threads) + 1
    /\ player'.threads[Len(player'.threads)].start_position = player.ui.target
    /\ player'.threads[Len(player'.threads)].dispatched = <<>>
    /\ player'.playing
    /\ ~player'.paused

WasPlayingUnpaused == player.ui.was_playing /\ ~player.ui.was_paused

\* C28 as stated: seek_to(t) on a playing, unpaused player sets
\* current_position to t clamped into [0, total_duration] and restarts
\* playback so that the new pass dispatches exactly the events whose time is
\* at or after the clamped target, in order, and none before it; seek_to on
\* a paused or stopped player only moves current_position and starts no
\* playback loop: the flags are as they were when it was called.
C28_SeekOnlyMovesPosition ==
    /\ [](FromStartPosition)
    /\ [][/\ SeekCalled => SeekTargetClamped
          /\ SeekReturns =>
                 /\ player'.current_position = player.ui.target
                 /\ IF WasPlayingUnpaused THEN Restarted
                    ELSE /\ player'.threads = player.threads
                         /\ player'.playing = player.ui.was_playing
                         /\ player'.paused = player.ui.was_paused]_vars

\* C28 amended: seek_to(t) on a playing, unpaused player sets
\* current_position to t clamped into [0, total_duration] and restarts
\* playback so that the new pass dispatches exactly the events whose time is
\* at or after the clamped target, in order, and none before it; seek_to on
\* a paused or stopped player moves current_position, starts no playback
\* loop and leaves the player stopped: a paused playback is ended, playing
\* and paused are both false.
C28_SeekRestartsOrStops ==
    /\ [](FromStartPosition)
    /\ [][/\ SeekCalled => SeekTargetClamped
          /\ SeekReturns =>
                 /\ player'.current_position = player.ui.target
                 /\ IF WasPlayingUnpaused THEN Restarted
                    ELSE /\ player'.threads = player.threads
                         /\ ~player'.playing
                         /\ ~player'.paused]_vars

\* the first pass had dispatched an event when seek_to(1) restarted the
\* playback; the new pass has run to the end and dispatched the one event
\* at time 1
C28_Witness ==
    /\ Len(player.threads) = 2
    /\ player.threads[1].dispatched # <<>>
    /\ player.threads[2].start_position = 1
    /\ player.threads[2].pc = "done"
    /\ player.threads[2].dispatched = <<3>>
    /\ player.events[3].time = 1
    /\ player.events[2].time = 0

(***************************************************************************)
(* Stopping: one playback is started, paused and resumed at will, and once *)
(* stop has been called neither play nor seek_to is called again.  The     *)
(* playback thread and the caller inside stop are scheduled: a step of     *)
(* theirs that stays possible is taken.  time.sleep(0.01) returns, so the  *)
(* loop tests its flags again and again; a wait for an event that is not   *)
(* due yet ends, because the wall clock advances.                          *)
(***************************************************************************)
\* play starts the playback, or resumes it while it is paused; after stop
\* both flags are false and play is not called
PlayBeforeStop ==
    /\ CallerIdle
    /\ player.threads = <<>> \/ (player.playing /\ player.paused)
    /\ player' = play(player)
    /\ UNCHANGED <<mapper, keyboard, call, gui, op, entry, valid, converter>>

\* the rest of stop
StopRelease ==
    /\ player.ui.pc = "stop_release"
    /\ player' = stop_end(player)
    /\ UNCHANGED <<mapper, keyboard, call, gui, op, entry, valid, converter>>

NextStop ==
    \/ PlayBeforeStop
    \/ Pause
    \/ StopBegin
    \/ StopRelease
    \/ ThreadTest
    \/ ReplayBody
    \/ ReplayExit

SpecStop == InitPass /\ [][NextStop]_vars

SpecStopFair ==
    /\ SpecStop
    /\ WF_vars(StopRelease)
    /\ WF_vars(ThreadTest)
    /\ WF_vars(ReplayBody)
    /\ WF_vars(ReplayExit)

\* stop has just set the flags of a player whose playback thread was started
StopCalled == player.ui.pc = "stop_release" /\ player.threads # <<>>

\* the step dispatches no press
NoNewPress ==
    /\ Len(player'.log) >= Len(player.log)
    /\ \A i \in (Len(player.log) + 1)..Len(player'.log) :
           player'.log[i].act # "press"

\* C29: after stop is called on a playing or paused player and neither play
\* nor seek_to follows, the playback thread eventually leaves its loop and
\* returns, also when it was in the pause wait; the playing flag stays
\* false; and no press is dispatched once the thread has exited.
C29_StopEndsPlayback ==
    /\ StopCalled ~> AllExited
    /\ [](StopCalled => [](~player.playing))
    /\ [][AllExited => NoNewPress /\ AllExited']_vars

\* stop ended a playback before its last event: the thread has returned
\* having processed fewer events than the file holds, the caller is out of
\* stop and playing is false
C29_Witness ==
    /\ AllExited
    /\ CallerIdle
    /\ ~player.playing
    /\ Len(player.threads[1].dispatched) < Len(player.events)

(***************************************************************************)
(* Key combinations on every backend strategy                              *)
(* _WindowsKeyboard, _MacKeyboard, _LinuxKeyboard, src/src/keyboard.py     *)
(* press_combination is called with one or two modifiers and with or       *)
(* without a key; keyboard holds the events that the call issued.  A       *)
(* command of the external tool is an event of its own: "key" with the     *)
(* chord it was given.  The commands are taken to succeed.                 *)
(***************************************************************************)
\* the keys that _get_key_name finds in key_map
pynput_key_map ==
    (valid_special \ {<<"i", "n", "s", "e", "r", "t">>}) \cup valid_modifiers

\* _MacKeyboard.KEY_CODES
KEY_CODES ==
    {<<c>> : c \in Letters} \cup pynput_key_map \cup {<<"c", "m", "d">>}

\* _get_key_name(key) is not None: a named key or a single character
get_key_name(key) == key \in pynput_key_map \/ Len(key) = 1

\* press_key and release_key of the library strategy
pynput_press_key(key) ==
    IF get_key_name(key) THEN <<[ev |-> "down", key |-> key]>> ELSE <<>>

pynput_release_key(key) ==
    IF get_key_name(key) THEN <<[ev |-> "up", key |-> key]>> ELSE <<>>

\* press_key and release_key of the scripting fallback
applescript_press_key(key) ==
    IF key \in KEY_CODES THEN <<[ev |-> "down", key |-> key]>> ELSE <<>>

applescript_release_key(key) ==
    IF key \in KEY_CODES THEN <<[ev |-> "up", key |-> key]>> ELSE <<>>

\* _xdotool_key: xdotool keydown or keyup; key_map names the modifiers and
\* space as the program does, and any other key defaults to itself
xdotool_key(key, press) ==
    <<[ev |-> IF press THEN "down" ELSE "up", key |-> key]>>

\* the events of pressing (or releasing) each key of a list in order
RECURSIVE Each(_, _)
Each(send(_), keys) ==
    IF keys = <<>> THEN <<>> ELSE send(Head(keys)) \o Each(send, Tail(keys))

\* '+'.join(modifiers)
RECURSIVE join(_)
join(parts) ==
    IF parts = <<>> THEN <<>>
    ELSE IF Len(parts) = 1 THEN parts[1]
    ELSE parts[1] \o <<"+">> \o join(Tail(parts))

\* the modifiers that mod_map knows
mod_keys(modifiers) == SelectSeq(modifiers, LAMBDA m : m \in valid_modifiers)

\* the branch of press_combination that goes through the library
pynput_press_combination(modifiers, key) ==
    Each(LAMBDA m : <<[ev |-> "down", key |-> m]>>, mod_keys(modifiers))
        \o (IF key # <<>>
            THEN pynput_press_key(key) \o pynput_release_key(key)
            ELSE <<>>)
        \o Each(LAMBDA m : <<[ev |-> "up", key |-> m]>>,
                reversed(mod_keys(modifiers)))

\* _MacKeyboard.press_combination
mac_press_combination(use_pynput, modifiers, key) ==
    IF use_pynput THEN pynput_press_combination(modifiers, key)
    ELSE Each(applescript_press_key, modifiers)
             \o (IF key # <<>>
                 THEN applescript_press_key(key) \o applescript_release_key(key)
                 ELSE <<>>)
             \o Each(applescript_release_key, reversed(modifiers))

\* _LinuxKeyboard.press_combination
linux_press_combination(use_xdotool, modifiers, key) ==
    IF use_xdotool
    THEN IF key # <<>>
         THEN <<[ev |-> "key", key |-> join(modifiers) \o <<"+">> \o key]>>
         ELSE Each(LAMBDA m : xdotool_key(m, TRUE), modifiers)
    ELSE pynput_press_combination(modifiers, key)

\* the lists of modifiers a combination is made of
ModifierLists ==
    {<<m>> : m \in valid_modifiers}
        \cup {<<m, n>> : m \in valid_modifiers, n \in valid_modifiers}

\* the key of a combination; <<>> stands for None
CombinationKeys == {<<>>, <<"a">>, <<"1">>, <<"s", "p", "a", "c", "e">>}

BackendCall(strategy, modifiers, key) ==
    [fn |-> "press_combination", strategy |-> strategy,
     modifiers |-> modifiers, key |-> key]

InitBackend ==
    /\ keyboard = <<>>
    /\ call = NoCall
    /\ mapper = IdleMapper
    /\ gui = IdleGui
    /\ op = NoOp
    /\ entry = <<>>
    /\ valid = FALSE
    /\ player = IdlePlayer
    /\ converter = IdleConverter

WindowsCombination ==
    /\ \E modifiers \in ModifierLists, key \in CombinationKeys :
           /\ keyboard' = press_combination(modifiers, key)
           /\ call' = BackendCall("windows", modifiers, key)
    /\ UNCHANGED <<mapper, gui, op, entry, valid, player, converter>>

MacCombination ==
    /\ \E use_pynput \in BOOLEAN, modifiers \in ModifierLists,
          key \in CombinationKeys :
           /\ keyboard' = mac_press_combination(use_pynput, modifiers, key)
           /\ call' = BackendCall(IF use_pynput THEN "mac pynput"
                                  ELSE "mac applescript", modifiers, key)
    /\ UNCHANGED <<mapper, gui, op, entry, valid, player, converter>>

LinuxCombination ==
    /\ \E use_xdotool \in BOOLEAN, modifiers \in ModifierLists,
          key \in CombinationKeys :
           /\ keyboard' = linux_press_combination(use_xdotool, modifiers, key)
           /\ call' = BackendCall(IF use_xdotool THEN "linux xdotool"
                                  ELSE "linux pynput", modifiers, key)
    /\ UNCHANGED <<mapper, gui, op, entry, valid, player, converter>>

NextBackend == WindowsCombination \/ MacCombination \/ LinuxCombination

SpecBackend == InitBackend /\ [][NextBackend]_vars

\* what the events do to the keys: xdotool key types its chord, the keys
\* down in the order written and up in the reverse order
RECURSIVE Typed(_)
Typed(events) ==
    IF events = <<>> THEN <<>>
    ELSE (IF Head(events).ev = "key"
          THEN LET chord == split(Head(events).key)
               IN  Each(LAMBDA k : <<[ev |-> "down", key |-> k]>>, chord)
                       \o Each(LAMBDA k : <<[ev |-> "up", key |-> k]>>,
                               reversed(chord))
          ELSE <<Head(events)>>)
             \o Typed(Tail(events))

\* the modifiers down in the given order, the key down and up when there is
\* one, the modifiers up in the reverse order
Chord(modifiers, key) ==
    Each(LAMBDA m : <<[ev |-> "down", key |-> m]>>, modifiers)
        \o (IF key # <<>>
            THEN <<[ev |-> "down", key |-> key], [ev |-> "up", key |-> key]>>
            ELSE <<>>)
        \o Each(LAMBDA m : <<[ev |-> "up", key |-> m]>>, reversed(modifiers))

\* C30: on every backend strategy, for every list of modifiers and with or
\* without a key, press_combination presses the modifiers in the given
\* order, presses then releases the key when one is given, and has released
\* every modifier it pressed, in reverse order, by the time it returns.
C30_CombinationPressedAndReleased ==
    call # NoCall => Typed(keyboard) = Chord(call.modifiers, call.key)

(***************************************************************************)
(* Further properties of the profile store                                 *)
(***************************************************************************)
\* the step saves the store right after the launch that loaded it from a
\* new-schema file
SaveAfterLoad ==
    /\ gui.running
    /\ op.name = "launch"
    /\ op.file_before.schema = "new"
    /\ gui.file = op.file_before
    /\ op'.name = "save_config"

\* C31: load_all_profiles on a new-schema file followed by save_all_profiles
\* writes every profile back with the velocity_threshold it had in the file.
C31_SaveKeepsThresholds ==
    [][SaveAfterLoad =>
           \A name \in DOMAIN gui.file.profiles :
               /\ name \in DOMAIN gui'.file.profiles
               /\ gui'.file.profiles[name].velocity_threshold =
                      gui.file.profiles[name].velocity_threshold]_vars

(***************************************************************************)
(* Loading the configuration file: the graphical shell and the command     *)
(* line mapper read the same file, each in its own process                 *)
(* MIDIToKeyboardMapper.load_config, src/src/mapper.py                     *)
(***************************************************************************)
\* the mapping create_default_config writes
default_profile_map ==
    StrKeys((60 :> <<"a">>) @@ (62 :> <<"s">>) @@ (64 :> <<"d">>)
                @@ (65 :> <<"f">>) @@ (67 :> <<"g">>) @@ (69 :> <<"h">>)
                @@ (71 :> <<"j">>) @@ (72 :> <<"k">>))

default_config ==
    NewFile("default" :> [midi_map |-> default_profile_map,
                          velocity_threshold |-> 0],
            "default")

\* the threshold load_config keeps: the one in the file when it is positive
LoadedThreshold(data) ==
    IF data.velocity_threshold > 0 THEN data.velocity_threshold ELSE 0

\* load_config(profile_name) on the file; exited is sys.exit(1)
load_config(file, profile_name) ==
    IF file.schema = "absent"
    THEN [midi_map |-> IntKeys(default_profile_map), velocity_threshold |-> 0,
          file |-> default_config, exited |-> FALSE]
    ELSE IF file.schema = "corrupt"
    THEN [midi_map |-> EmptyDict, velocity_threshold |-> 0,
          file |-> file, exited |-> TRUE]
    ELSE IF file.schema = "new"
    THEN LET profiles == file.profiles
             selected_profile ==
                 IF profile_name # None /\ profile_name \in DOMAIN profiles
                 THEN profile_name
                 ELSE IF profile_name = None THEN file.current_profile
                 ELSE "default"
             profile_data ==
                 IF selected_profile \in DOMAIN profiles
                 THEN profiles[selected_profile]
                 ELSE [midi_map |-> StrKeys(EmptyDict), velocity_threshold |-> 0]
         IN  [midi_map |-> IntKeys(profile_data.midi_map),
              velocity_threshold |-> LoadedThreshold(profile_data),
              file |-> file, exited |-> FALSE]
    ELSE [midi_map |-> IntKeys(file.midi_map),
          velocity_threshold |-> LoadedThreshold(file),
          file |-> file, exited |-> FALSE]

\* the profile the command line names, or None
ProfileArguments == Names \cup {None}

LoadCall(profile_name, exited) ==
    [fn |-> "load_config", profile_name |-> profile_name, exited |-> exited]

InitLoad ==
    /\ gui \in {GuiInit(f, NotSaved) : f \in InitialFiles}
    /\ op = NoOp
    /\ mapper = IdleMapper
    /\ keyboard = <<>>
    /\ call = NoCall
    /\ entry = <<>>
    /\ valid = FALSE
    /\ player = IdlePlayer
    /\ converter = IdleConverter

\* MIDIToKeyboardMapper(config_path, profile_name) is constructed
MapperLoad ==
    /\ \E profile_name \in ProfileArguments :
           LET loaded == load_config(gui.file, profile_name)
           IN  /\ mapper' = [midi_map |-> loaded.midi_map,
                             active_notes |-> EmptyDict,
                             velocity_threshold |-> loaded.velocity_threshold]
               /\ gui' = [gui EXCEPT !.file = loaded.file]
               /\ call' = LoadCall(profile_name, loaded.exited)
    /\ UNCHANGED <<keyboard, op, entry, valid, player, converter>>

NextLoad == Launch \/ Close \/ MapperLoad

SpecLoad == InitLoad /\ [][NextLoad]_vars

\* the file records a current profile it does not hold, and holds default
DanglingCurrent(file) ==
    /\ file.schema = "new"
    /\ file.current_profile \notin DOMAIN file.profiles
    /\ "default" \in DOMAIN file.profiles

\* C32: when a new-schema file records a current_profile that is not among
\* its profiles while a profile named default exists, both the store's load
\* and the mapping engine's load_config without a profile name activate the
\* mapping of the default profile.
C32_DanglingCurrentLoadsDefault ==
    DanglingCurrent(gui.file) =>
        /\ (gui.running /\ op.name = "launch") =>
               /\ gui.current_profile = "default"
               /\ gui.midi_map = IntKeys(gui.file.profiles["default"].midi_map)
               /\ gui.mapper_map = gui.midi_map
        /\ (call # NoCall /\ call.profile_name = None) =>
               mapper.midi_map = IntKeys(gui.file.profiles["default"].midi_map)

(***************************************************************************)
(* Single-file conversion                                                  *)
(* AudioToMidiConverter.load_model, convert_audio_to_midi,                 *)
(* src/src/converters/audio.py                                             *)
(* A call runs on one thread; what the machine holds (the dependencies,    *)
(* the model file, the inference session, the audio file, the transcriber) *)
(* is an input of the call.                                                *)
(***************************************************************************)
\* the audio of the input file
Audios == {"missing", "undecodable", "short", "music"}

\* what a call finds on the machine
Environments ==
    [deps_ok : BOOLEAN, model_available : BOOLEAN, session_raises : BOOLEAN,
     audio : Audios, transcribe_raises : BOOLEAN]

\* AudioToMidiConverter.__init__
NewAudioConverter ==
    [mode |-> "convert", model_loaded |-> FALSE, converting |-> FALSE,
     last_error |-> None, returned |-> None, raised |-> FALSE, log |-> <<>>]

\* _log(message)
Log(c, message) == [c EXCEPT !.log = Append(@, message)]

\* load_model: the converter after the call, returned telling its result
load_model(c, env) ==
    IF c.model_loaded THEN [c EXCEPT !.returned = "True"]
    ELSE IF ~env.deps_ok
    THEN [Log(c, "ERROR: Missing dependencies") EXCEPT !.returned = "False"]
    ELSE IF ~env.model_available
    THEN [Log(c, "ERROR: Model not found") EXCEPT !.returned = "False"]
    ELSE IF env.session_raises
    THEN [Log(c, "Failed to load model")
              EXCEPT !.last_error = "Failed to load model", !.returned = "False"]
    ELSE [Log(c, "Model ready for transcription")
              EXCEPT !.model_loaded = TRUE, !.returned = "True"]

\* self._log(error); self.converting = False; return None
GiveUp(c, message) ==
    [Log(c, message) EXCEPT !.converting = FALSE, !.returned = None]

convert_audio_to_midi(c0, env, output_midi_path) ==
    LET c1 == [c0 EXCEPT !.last_error = None, !.log = <<>>, !.raised = FALSE]
        c2 == IF c1.model_loaded THEN [c1 EXCEPT !.returned = "True"]
              ELSE load_model(c1, env)
    IN  IF c2.returned = "False"
        THEN [Log(c2, "ERROR: Model failed to load") EXCEPT !.returned = None]
        ELSE IF env.audio = "missing"
        THEN [Log(c2, "ERROR: Audio file not found") EXCEPT !.returned = None]
        ELSE IF env.audio = "undecodable"
        THEN GiveUp(c2, "ERROR: Failed to load audio file")
        ELSE IF env.audio = "short"
        THEN GiveUp(c2, "ERROR: Audio too short")
        ELSE IF env.transcribe_raises
        THEN [Log(c2, "Conversion error")
                  EXCEPT !.last_error = "Conversion error", !.converting = FALSE,
                         !.returned = None]
        ELSE [Log(c2, "Conversion complete") EXCEPT !.converting = FALSE,
                                                     !.returned = output_midi_path]

ConvertCall(env) == [fn |-> "convert_audio_to_midi", env |-> env]

InitConvert ==
    /\ converter = NewAudioConverter
    /\ call = NoCall
    /\ mapper = IdleMapper
    /\ keyboard = <<>>
    /\ gui = IdleGui
    /\ op = NoOp
    /\ entry = <<>>
    /\ valid = FALSE
    /\ player = IdlePlayer

ConvertAudio ==
    /\ \E env \in Environments :
           /\ converter' = convert_audio_to_midi(converter, env, "out.mid")
           /\ call' = ConvertCall(env)
    /\ UNCHANGED <<mapper, keyboard, gui, op, entry, valid, player>>

NextConvert == ConvertAudio

SpecConvert == InitConvert /\ [][NextConvert]_vars

\* C33: convert_audio_to_midi never raises, and whenever it returns None -
\* model or dependency unavailable, input file missing, audio undecodable,
\* audio shorter than one second, an exception during transcription -
\* last_error holds a description of the failure and converting is false.
C33_FailureIsRecorded ==
    call # NoCall =>
        /\ ~converter.raised
        /\ converter.returned = None =>
               converter.last_error # None /\ ~converter.converting

(***************************************************************************)
(* Loading the model from several threads                                  *)
(* convert_async and convert_batch_parallel each start a thread that       *)
(* tests model_loaded and calls load_model; load_model tests the flag      *)
(* again, constructs the inference session, and sets the flag.  No lock    *)
(* is held, so every read and every write is a step of its own.  The       *)
(* dependencies and the model file are in place.                           *)
(***************************************************************************)
MaxCalls == 3

\* a thread started by convert_async ("async") or convert_batch_parallel
\* ("batch"), about to test self.model_loaded
NewLoader(kind) == [kind |-> kind, pc |-> "test", loads_done |-> FALSE]

NewLoading ==
    [mode |-> "loading", model_loaded |-> FALSE, sessions |-> 0,
     loaders |-> <<>>, early_worker |-> FALSE]

\* threading.Thread(target=...).start()
start_loader(c, kind) == [c EXCEPT !.loaders = Append(@, NewLoader(kind))]

\* if not self.model_loaded: ... self.load_model()
test_model_loaded(c, t) ==
    [c EXCEPT !.loaders[t].pc = IF c.model_loaded THEN "work" ELSE "load_model"]

\* load_model: if self.model_loaded: return True
load_model_test(c, t) ==
    [c EXCEPT !.loaders[t].pc = IF c.model_loaded THEN "work" ELSE "session"]

\* self.model = ort.InferenceSession(...); the transcriber is built on it
load_model_session(c, t) ==
    [c EXCEPT !.sessions = @ + 1, !.loaders[t].pc = "loaded"]

\* self.model_loaded = True; return True
load_model_done(c, t) ==
    [c EXCEPT !.model_loaded = TRUE, !.loaders[t].pc = "work"]

\* the thread goes on: convert_audio_to_midi converts, _batch_convert
\* submits its files to the pool and the workers start
start_work(c, t) ==
    [c EXCEPT !.loaders[t].pc = "done",
              !.early_worker = @ \/ (c.loaders[t].kind = "batch" /\ ~c.model_loaded)]

InitLoading ==
    /\ converter = NewLoading
    /\ call = NoCall
    /\ mapper = IdleMapper
    /\ keyboard = <<>>
    /\ gui = IdleGui
    /\ op = NoOp
    /\ entry = <<>>
    /\ valid = FALSE
    /\ player = IdlePlayer

\* the calls are made before the model is loaded
ConvertAsync ==
    /\ ~converter.model_loaded
    /\ Len(converter.loaders) < MaxCalls
    /\ converter' = start_loader(converter, "async")
    /\ UNCHANGED <<mapper, keyboard, call, gui, op, entry, valid, player>>

ConvertBatchParallel ==
    /\ ~converter.model_loaded
    /\ Len(converter.loaders) < MaxCalls
    /\ converter' = start_loader(converter, "batch")
    /\ UNCHANGED <<mapper, keyboard, call, gui, op, entry, valid, player>>

LoaderStep(pc, step(_, _)) ==
    /\ \E t \in 1..Len(converter.loaders) :
           /\ converter.loaders[t].pc = pc
           /\ converter' = step(converter, t)
    /\ UNCHANGED <<mapper, keyboard, call, gui, op, entry, valid, player>>

TestModelLoaded == LoaderStep("test", test_model_loaded)

LoadModelTest == LoaderStep("load_model", load_model_test)

LoadModelSession == LoaderStep("session", load_model_session)

LoadModelDone == LoaderStep("loaded", load_model_done)

StartWork == LoaderStep("work", start_work)

NextLoading ==
    \/ ConvertAsync
    \/ ConvertBatchParallel
    \/ TestModelLoaded
    \/ LoadModelTest
    \/ LoadModelSession
    \/ LoadModelDone
    \/ StartWork

SpecLoading == InitLoading /\ [][NextLoading]_vars

\* C34: on one converter, under any interleaving of convert_async and
\* convert_batch_parallel calls started before the model is loaded, the
\* inference session is constructed at most once, and no batch worker
\* starts converting before the model load has finished.
C34_ModelLoadedOnce ==
    /\ converter.sessions <= 1
    /\ ~converter.early_worker

(***************************************************************************)
(* Threads and widgets of the graphical shell, src/src/gui.py              *)
(* root.after(0, f) puts f on the queue of the GUI thread, which runs the  *)
(* queued functions one at a time.  Each thread is known by its name; a    *)
(* touch is a widget configured by a thread.                               *)
(***************************************************************************)
MaxAfter == 3

WorkerThreads ==
    {"midi_listener", "key_listener", "playback", "test", "converter", "download"}

\* the function each worker thread hands to root.after, and the widget
\* that function configures
Scheduled ==
    [midi_listener |-> [f |-> "on_midi_note", widget |-> "last_notes_text"],
     key_listener |-> [f |-> "set_captured_key", widget |-> "key_entry"],
     playback |-> [f |-> "on_player_note.update", widget |-> "current_note_label"],
     test |-> [f |-> "current_note_label.config", widget |-> "current_note_label"],
     converter |-> [f |-> "_on_converter_log.update",
                    widget |-> "convert_status_label"],
     download |-> [f |-> "_on_youtube_log.update", widget |-> "yt_status_label"]]

Touch(widget, thread) == [widget |-> widget, thread |-> thread]

NewShell ==
    [mode |-> "widgets", capturing_key |-> FALSE, pressed_modifiers |-> {},
     after |-> <<>>, touched |-> {}]

\* self.root.after(0, f)
after(g, callback) == [g EXCEPT !.after = Append(@, callback)]

\* widget.config(...) called on the thread
config(g, widget, thread) == [g EXCEPT !.touched = @ \cup {Touch(widget, thread)}]

\* stop_key_capture, run by the thread that calls it
stop_key_capture(g, thread) ==
    config(config([g EXCEPT !.capturing_key = FALSE, !.pressed_modifiers = {}],
                  "capture_status_label", thread),
           "key_entry", thread)

\* start_key_capture: the Capture button, on the GUI thread
start_key_capture(g) ==
    IF g.capturing_key THEN stop_key_capture(g, "gui")
    ELSE config(config([g EXCEPT !.capturing_key = TRUE, !.pressed_modifiers = {}],
                       "capture_status_label", "gui"),
                "key_entry", "gui")

\* on_key_press, called by the keyboard listener on its own thread
on_key_press(g, key) ==
    IF ~g.capturing_key THEN g
    ELSE IF <<key>> \in {<<"ctrl">>, <<"shift">>, <<"alt">>}
    THEN IF key \in g.pressed_modifiers THEN g
         ELSE after([g EXCEPT !.pressed_modifiers = @ \cup {key}],
                    [f |-> "capture_status_label.config",
                     widget |-> "capture_status_label"])
    ELSE stop_key_capture(after(g, Scheduled.key_listener), "key_listener")

\* what a worker thread other than the keyboard listener does with the
\* shell: it schedules its update
worker_callback(g, thread) == after(g, Scheduled[thread])

\* the GUI thread runs the function at the head of its queue
run_after(g) ==
    [config(g, Head(g.after).widget, "gui") EXCEPT !.after = Tail(g.after)]

InitWidgets ==
    /\ gui = NewShell
    /\ op = NoOp
    /\ mapper = IdleMapper
    /\ keyboard = <<>>
    /\ call = NoCall
    /\ entry = <<>>
    /\ valid = FALSE
    /\ player = IdlePlayer
    /\ converter = IdleConverter

StartKeyCapture ==
    /\ gui' = start_key_capture(gui)
    /\ UNCHANGED <<mapper, keyboard, call, op, entry, valid, player, converter>>

OnKeyPress ==
    /\ \E key \in {"ctrl", "shift", "a"} :
           /\ Len(on_key_press(gui, key).after) <= MaxAfter
           /\ gui' = on_key_press(gui, key)
    /\ UNCHANGED <<mapper, keyboard, call, op, entry, valid, player, converter>>

WorkerCallback ==
    /\ Len(gui.after) < MaxAfter
    /\ \E thread \in WorkerThreads \ {"key_listener"} :
           gui' = worker_callback(gui, thread)
    /\ UNCHANGED <<mapper, keyboard, call, op, entry, valid, player, converter>>

RunAfter ==
    /\ gui.after # <<>>
    /\ gui' = run_after(gui)
    /\ UNCHANGED <<mapper, keyboard, call, op, entry, valid, player, converter>>

NextWidgets == StartKeyCapture \/ OnKeyPress \/ WorkerCallback \/ RunAfter

SpecWidgets == InitWidgets /\ [][NextWidgets]_vars

\* C35: every widget mutation is executed on the GUI thread; the MIDI
\* listener, the keyboard capture listener (also in the step that ends the
\* capture on the first key that is not a modifier), the playback thread,
\* the test and practice threads and the converter and download threads
\* only schedule their updates and never configure a widget themselves.
C35_WidgetsOnGuiThread == \A touch \in gui.touched : touch.thread = "gui"

(***************************************************************************)
(* Connecting to a MIDI port: connect_midi, disconnect_midi,               *)
(* start_midi_listener, midi_listener_loop, src/src/gui.py                 *)
(* Every mido.open_input gives a new port object, numbered in the order    *)
(* of opening; 0 stands for None.  Iterating a port ends once the port is  *)
(* closed.  The handlers run on the GUI thread; the listener is a thread   *)
(* of its own, and each of its reads of the shell is a step.               *)
(***************************************************************************)
MaxConnects == 3

NoPort == 0

NewConnection ==
    [mode |-> "midi", running |-> FALSE, midi_port |-> NoPort, opened |-> 0,
     closed |-> {}, listeners |-> <<>>, midi_listener_thread |-> 0]

\* midi_listener_thread is set and is_alive()
ListenerAlive(g) ==
    g.midi_listener_thread # 0 /\ g.listeners[g.midi_listener_thread].pc # "done"

start_midi_listener(g) ==
    IF ListenerAlive(g) THEN g
    ELSE [g EXCEPT !.listeners = Append(@, [pc |-> "start", port |-> NoPort]),
                   !.midi_listener_thread = Len(g.listeners) + 1]

disconnect_midi(g) ==
    [g EXCEPT !.running = FALSE,
              !.closed = IF g.midi_port # NoPort THEN @ \cup {g.midi_port} ELSE @,
              !.midi_port = NoPort]

\* connect_midi with a port selected; opens tells whether mido.open_input
\* returns a port or raises
connect_midi(g, opens) ==
    LET g1 == IF g.midi_port # NoPort THEN disconnect_midi(g) ELSE g
    IN  IF ~opens THEN g1
        ELSE start_midi_listener([g1 EXCEPT !.midi_port = g1.opened + 1,
                                            !.opened = @ + 1,
                                            !.running = TRUE])

\* midi_listener_loop: if not self.midi_port: return
listener_start(g, t) ==
    [g EXCEPT !.listeners[t].pc = IF g.midi_port = NoPort THEN "done" ELSE "iter"]

\* for message in self.midi_port: the port object is read once; iterating
\* None raises, and the handler ends the thread
listener_iter(g, t) ==
    IF g.midi_port = NoPort THEN [g EXCEPT !.listeners[t].pc = "done"]
    ELSE [g EXCEPT !.listeners[t].pc = "loop", !.listeners[t].port = g.midi_port]

\* the iteration ends when its port is closed; a message is handed over
\* while running is true and breaks the loop otherwise
listener_receive(g, t, message) ==
    IF g.listeners[t].port \in g.closed
    THEN [g EXCEPT !.listeners[t].pc = "done"]
    ELSE IF message /\ ~g.running THEN [g EXCEPT !.listeners[t].pc = "done"]
    ELSE g

InitConnect ==
    /\ gui = NewConnection
    /\ op = NoOp
    /\ mapper = IdleMapper
    /\ keyboard = <<>>
    /\ call = NoCall
    /\ entry = <<>>
    /\ valid = FALSE
    /\ player = IdlePlayer
    /\ converter = IdleConverter

ConnectMidi ==
    /\ gui.opened < MaxConnects
    /\ \E opens \in BOOLEAN : gui' = connect_midi(gui, opens)
    /\ op' = [NoOp EXCEPT !.name = "connect_midi"]
    /\ UNCHANGED <<mapper, keyboard, call, entry, valid, player, converter>>

DisconnectMidi ==
    /\ gui' = disconnect_midi(gui)
    /\ op' = [NoOp EXCEPT !.name = "disconnect_midi"]
    /\ UNCHANGED <<mapper, keyboard, call, entry, valid, player, converter>>

ListenerStart ==
    /\ \E t \in 1..Len(gui.listeners) :
           /\ gui.listeners[t].pc = "start"
           /\ gui' = listener_start(gui, t)
    /\ UNCHANGED <<mapper, keyboard, call, op, entry, valid, player, converter>>

ListenerIter ==
    /\ \E t \in 1..Len(gui.listeners) :
           /\ gui.listeners[t].pc = "iter"
           /\ gui' = listener_iter(gui, t)
    /\ UNCHANGED <<mapper, keyboard, call, op, entry, valid, player, converter>>

ListenerReceive ==
    /\ \E t \in 1..Len(gui.listeners), message \in BOOLEAN :
           /\ gui.listeners[t].pc = "loop"
           /\ gui' = listener_receive(gui, t, message)
    /\ UNCHANGED <<mapper, keyboard, call, op, entry, valid, player, converter>>

NextConnect ==
    \/ ConnectMidi
    \/ DisconnectMidi
    \/ ListenerStart
    \/ ListenerIter
    \/ ListenerReceive

SpecConnect == InitConnect /\ [][NextConnect]_vars

\* a live listener thread reads the port, or is about to take it up
ReadsPort(g, t) ==
    \/ g.listeners[t].pc \in {"start", "iter"}
    \/ g.listeners[t].pc = "loop" /\ g.listeners[t].port = g.midi_port

\* C36: after every successful connect_midi, also a reconnect issued while
\* the listener of the port opened before has not exited, a listener thread
\* consumes the messages of the newly opened port: in no reachable state is
\* the shell connected (running, a port open) with no live thread reading
\* that port.
C36_ConnectedPortHasListener ==
    (gui.running /\ gui.midi_port # NoPort) =>
        \E t \in 1..Len(gui.listeners) : ReadsPort(gui, t)

(***************************************************************************)
(* Loading a MIDI file: MIDIFilePlayer.load_file on the messages of a file *)
(***************************************************************************)
MaxMessages == 3

\* the messages a file may hold: delta time, kind, note
FileMessages ==
    {Msg(time, type, 60) : time \in {0, 1}, type \in {"on", "off", "other"}}

RECURSIVE MessageLists(_)
MessageLists(n) ==
    IF n = 0 THEN {<<>>}
    ELSE MessageLists(n - 1)
             \cup {Append(msgs, msg) : msgs \in MessageLists(n - 1),
                                       msg \in FileMessages}

LoadFileCall(msgs) == [fn |-> "load_file", msgs |-> msgs]

InitLoadFile ==
    /\ player = NewPlayer(FALSE, FALSE, 2, 2)
    /\ call = NoCall
    /\ mapper = IdleMapper
    /\ keyboard = <<>>
    /\ gui = IdleGui
    /\ op = NoOp
    /\ entry = <<>>
    /\ valid = FALSE
    /\ converter = IdleConverter

\* one file is loaded: load_file sets anew everything that it computes
LoadFile ==
    /\ call = NoCall
    /\ \E msgs \in MessageLists(MaxMessages) :
           /\ player' = load_file(player, msgs)
           /\ call' = LoadFileCall(msgs)
    /\ UNCHANGED <<mapper, keyboard, gui, op, entry, valid, converter>>

NextLoadFile == LoadFile

SpecLoadFile == InitLoadFile /\ [][NextLoadFile]_vars

\* the absolute time of the last note event of the loaded file, 0 when the
\* file has none
LastEventTime(p) ==
    IF p.events = <<>> THEN 0 ELSE p.events[Len(p.events)].time

\* C37 as stated: after load_file, total_duration equals the absolute time
\* of the last extracted note event, and 0 when the file has no note
\* events, also when messages that are not notes follow the last note event
\* with a delta time that is not zero.
C37_DurationIsLastEventTime ==
    call # NoCall => player.total_duration = LastEventTime(player)

\* the absolute time of the i-th message of the file
RECURSIVE AbsoluteTime(_, _)
AbsoluteTime(msgs, i) ==
    IF i = 0 THEN 0 ELSE AbsoluteTime(msgs, i - 1) + msgs[i].time

\* the places of the note messages in the file
NotePlaces(msgs) == {i \in 1..Len(msgs) : msgs[i].type \in {"on", "off"}}

\* time passes in the file after its last note message
TimeAfterLastNote(msgs) ==
    \E i \in 1..Len(msgs) :
        /\ msgs[i].time > 0
        /\ \A j \in i..Len(msgs) : j \notin NotePlaces(msgs)

\* C37: after load_file, total_duration is 0 when the file has no note
\* events and otherwise the absolute time of the last message of the file,
\* whatever its kind; it is the time of the last note event exactly when no
\* time passes in the file after the last note message, and later than it
\* otherwise.
C37_DurationIsEndOfFile ==
    call # NoCall =>
        LET msgs == call.msgs
        IN  /\ NotePlaces(msgs) = {} => player.total_duration = 0
            /\ NotePlaces(msgs) # {} =>
                   /\ player.total_duration = AbsoluteTime(msgs, Len(msgs))
                   /\ player.total_duration >= LastEventTime(player)
                   /\ player.total_duration = LastEventTime(player)
                          <=> ~TimeAfterLastNote(msgs)

\* a file whose last note event is at time 0 and whose last message, not a
\* note, comes one unit later
C37_Witness ==
    /\ call # NoCall
    /\ call.msgs = <<Msg(0, "on", 60), Msg(0, "off", 60), Msg(1, "other", 60)>>
    /\ player.total_duration = 1
    /\ LastEventTime(player) = 0

(***************************************************************************)
(* The four copies of the active mapping                                   *)
(***************************************************************************)
\* C38: after the initial load and after each of assign_key, remove_mapping,
\* clear_all_mappings, switch_profile, create, rename and delete, the
\* shell's midi_map, the mapping engine's midi_map, the file player's
\* midi_map and the stored mapping of the current profile all hold the same
\* mapping of notes to keys.
C38_MappingCopiesAgree ==
    gui.running =>
        /\ gui.current_profile \in DOMAIN gui.profiles
        /\ gui.profiles[gui.current_profile] = gui.midi_map
        /\ gui.mapper_map = gui.midi_map
        /\ gui.player_map = gui.midi_map

\* a key was assigned in a profile other than default, and the four copies
\* hold it
C38_Witness ==
    /\ gui.running
    /\ op.name = "assign_key"
    /\ op.ok
    /\ gui.current_profile = "A"
    /\ gui.player_map = (60 :> <<"a">>)
    /\ gui.profiles["A"] = gui.player_map

(***************************************************************************)
(* Live mapping while the mapping is edited, MIDIMapperGUI.on_midi_note,   *)
(* on_midi_note_off, assign_key, remove_mapping, clear_all_mappings and    *)
(* switch_profile, src/src/gui.py                                          *)
(*                                                                         *)
(* The check box of the live mapping is ticked and stays ticked.  call     *)
(* holds the note event that came in last and, in held, the keys of the    *)
(* MIDI keyboard that are down: a note-on comes for a key that is up, a    *)
(* note-off for a key that is down.  The handlers are those of the live    *)
(* mapping and of the profile store, each one step on the GUI thread.      *)
(***************************************************************************)
\* the profile that can be created next to default
EditNames == {"A"}

\* the notes that come in and are mapped while the mapping is edited
EditNotes == {60}

MidiEvent(fn, note, held) == [fn |-> fn, note |-> note, held |-> held]

InitEdit ==
    /\ LET g1 == load_all_profiles(GuiInit(AbsentFile, NotSaved))
           g2 == load_profile_without_save(g1, g1.current_profile)
       IN  gui = Begin([g2 EXCEPT !.running = TRUE]) @@ LiveFields
    /\ keyboard = <<>>
    /\ op = NoOp
    /\ mapper = IdleMapper
    /\ call = MidiEvent("none", 0, {})
    /\ entry = <<>>
    /\ valid = FALSE
    /\ player = IdlePlayer
    /\ converter = IdleConverter

\* a handler has run while the keys in call.held are down
Edit(name, g) ==
    /\ gui' = g
    /\ op' = [NoOp EXCEPT !.name = name]
    /\ UNCHANGED <<mapper, keyboard, call, entry, valid, player, converter>>

\* a key of the MIDI keyboard goes down
KeyDown ==
    \E note \in EditNotes \ call.held :
        LET step == on_midi_note(Begin(gui), keyboard, note)
        IN  /\ Len(step.keyboard) <= MaxLog
            /\ gui' = step.gui
            /\ keyboard' = step.keyboard
            /\ call' = MidiEvent("on_midi_note", note, call.held \cup {note})
            /\ op' = [NoOp EXCEPT !.name = "on_midi_note"]
            /\ UNCHANGED <<mapper, entry, valid, player, converter>>

\* a key of the MIDI keyboard goes up
KeyUp ==
    \E note \in call.held :
        LET step == on_midi_note_off(Begin(gui), keyboard, note)
        IN  /\ Len(step.keyboard) <= MaxLog
            /\ gui' = step.gui
            /\ keyboard' = step.keyboard
            /\ call' = MidiEvent("on_midi_note_off", note, call.held \ {note})
            /\ op' = [NoOp EXCEPT !.name = "on_midi_note_off"]
            /\ UNCHANGED <<mapper, entry, valid, player, converter>>

\* the check box is ticked
EnableMapping ==
    /\ ~gui.mapping_enabled
    /\ Edit("toggle_mapping", toggle_mapping(Begin(gui), keyboard, TRUE).gui)

EditAssignKey ==
    \E midi_note \in EditNotes, key_var \in LiveKeys :
        Edit("assign_key", assign_key(Begin(gui), midi_note, key_var))

EditRemoveMapping ==
    \E midi_note \in DOMAIN gui.midi_map :
        Edit("remove_mapping", remove_mapping(Begin(gui), midi_note))

EditClearAllMappings ==
    /\ gui.midi_map # EmptyDict
    /\ Edit("clear_all_mappings", clear_all_mappings(Begin(gui), TRUE))

EditCreateProfile ==
    \E name \in EditNames \ DOMAIN gui.profiles :
        Edit("create_new_profile", create_new_profile(Begin(gui), name))

EditSwitchProfile ==
    \E name \in DOMAIN gui.profiles \ {gui.current_profile} :
        Edit("switch_profile", switch_profile(Begin(gui), name))

NextEdit ==
    \/ KeyDown
    \/ KeyUp
    \/ EnableMapping
    \/ EditAssignKey
    \/ EditRemoveMapping
    \/ EditClearAllMappings
    \/ EditCreateProfile
    \/ EditSwitchProfile

SpecEdit == InitEdit /\ [][NextEdit]_vars

\* the release at place i is of the key that was last pressed for its note
ReleasesItsPress(kb, i) ==
    \E j \in 1..(i - 1) :
        /\ kb[j] = [kb[i] EXCEPT !.act = "press"]
        /\ \A k \in (j + 1)..(i - 1) : kb[k].note # kb[i].note

\* C39: in GUI live mapping, under any interleaving of note-on and note-off
\* events with assign_key, remove_mapping, clear_all_mappings and
\* switch_profile, the key released on a note's note-off is the key that was
\* pressed on its note-on, so that once every held note has received its
\* note-off no key pressed by live mapping is still held and no note stays
\* marked active.
C39_NoteOffReleasesPressedKey ==
    /\ \A i \in 1..Len(keyboard) :
           keyboard[i].act = "release" => ReleasesItsPress(keyboard, i)
    /\ call.held = {} =>
           /\ gui.active_notes = {}
           /\ \A i \in 1..Len(keyboard) : ~HeldDown(keyboard, keyboard[i].key)

(***************************************************************************)
(* The command-line mapper's main loop, MIDIToKeyboardMapper.run and       *)
(* open_midi_port, src/src/mapper.py                                       *)
(*                                                                         *)
(* mapper has, with the fields of the note handlers, current_port (None    *)
(* until a port is opened), port_open, which is the state of the port that *)
(* mido opened, and run, the place run() is at: "idle" before the call,    *)
(* "listening" in the loop over the port's messages, "returned" after a    *)
(* return and "raised" when an exception left run().  The mapping is the   *)
(* one load_config read, which is empty for a profile without mappings.    *)
(***************************************************************************)
\* mido.get_input_names()
PortLists == {<<>>, <<"P1">>, <<"P1", "P2">>}

PortNames == {None, "P1", "P2"}

\* the messages the port delivers
RunMessages ==
    [type : {"note_on"}, note : Notes, velocity : Velocities]
    \cup [type : {"note_off", "control_change"}, note : Notes, velocity : {0}]

\* the mapper after open_midi_port; it returned True iff current_port is set
open_midi_port(m, ports, port_name, opens) ==
    IF ports = <<>> THEN m
    ELSE LET name == IF port_name = None THEN ports[1] ELSE port_name
         IN  IF \A i \in 1..Len(ports) : ports[i] # name THEN m
             ELSE IF opens
                  THEN [m EXCEPT !.current_port = name, !.port_open = TRUE]
                  ELSE m

\* run() up to its loop
run_begin(m, ports, port_name, opens) ==
    LET m1 == open_midi_port(m, ports, port_name, opens)
    IN  IF m1.current_port = None THEN [m1 EXCEPT !.run = "returned"]
        ELSE IF m1.midi_map = EmptyDict THEN [m1 EXCEPT !.run = "returned"]
        ELSE [m1 EXCEPT !.run = "listening"]

\* finally: if self.current_port: self.current_port.close()
run_finally(m, outcome) ==
    [m EXCEPT !.port_open = IF m.current_port # None THEN FALSE ELSE @,
              !.run = outcome]

InitRun ==
    /\ mapper \in [midi_map : PartialMaps(Notes, MapperKeys),
                   active_notes : {EmptyDict},
                   velocity_threshold : Thresholds,
                   current_port : {None},
                   port_open : {FALSE},
                   run : {"idle"}]
    /\ keyboard = <<>>
    /\ call = NoCall
    /\ gui = IdleGui
    /\ op = NoOp
    /\ entry = <<>>
    /\ valid = FALSE
    /\ player = IdlePlayer
    /\ converter = IdleConverter

\* main() calls mapper.run(port_name)
RunBegin ==
    /\ mapper.run = "idle"
    /\ \E ports \in PortLists, port_name \in PortNames, opens \in BOOLEAN :
           mapper' = run_begin(mapper, ports, port_name, opens)
    /\ UNCHANGED <<gui, keyboard, call, op, entry, valid, player, converter>>

\* one turn of for message in self.current_port
RunMessage ==
    /\ mapper.run = "listening"
    /\ \E message \in RunMessages :
           IF message.type = "note_on"
           THEN IF message.velocity > 0
                THEN handle_note_on(message.note, message.velocity)
                ELSE handle_note_off(message.note)
           ELSE IF message.type = "note_off"
           THEN handle_note_off(message.note)
           ELSE /\ call' = [fn |-> message.type, note |-> message.note, velocity |-> 0]
                /\ UNCHANGED <<mapper, keyboard, gui, op, entry, valid, player, converter>>

\* Ctrl+C is caught, the stream of messages ends
RunReturn ==
    /\ mapper.run = "listening"
    /\ mapper' = run_finally(mapper, "returned")
    /\ UNCHANGED <<gui, keyboard, call, op, entry, valid, player, converter>>

\* the port or a handler raises something other than KeyboardInterrupt
RunRaise ==
    /\ mapper.run = "listening"
    /\ mapper' = run_finally(mapper, "raised")
    /\ UNCHANGED <<gui, keyboard, call, op, entry, valid, player, converter>>

NextRun ==
    \/ RunBegin
    \/ RunMessage
    \/ RunReturn
    \/ RunRaise

SpecRun == InitRun /\ [][NextRun]_vars

\* C40: whenever run() returns after open_midi_port succeeded, the opened
\* port has been closed: on user interrupt, on the end of the message stream
\* or a port error, and also when run gives up because no mappings are
\* configured.
C40_RunClosesPort ==
    (mapper.run \in {"returned", "raised"} /\ mapper.current_port # None) =>
        ~mapper.port_open

====
